---------------------------- MODULE Spec2Model ----------------------------
(***************************************************************************)
(* A model of the paw-patrole-wiki tools: the crawler (download_data.py),  *)
(* and the serving layer (main.py).                                        *)
(*                                                                         *)
(* Text is modelled as a sequence of characters, a character being a       *)
(* one-token string ("a", " ", "&", ...).  Three characters that are not   *)
(* ASCII are written by name: "rsquo" (U+2019), "ldquo" (U+201C) and       *)
(* "rdquo" (U+201D); "nl" is the line feed and "tab" the tabulator.        *)
(***************************************************************************)
EXTENDS Integers, Sequences, FiniteSets, TLC

VARIABLES
    \* ---- crawler (download_data.main) ----
    pc,            \* position of the crawl process
    resume,        \* args.resume
    links,         \* the discovered links, in order
    idx,           \* enumerate(links, start=1): the link the loop is at
    existing_ids,  \* ids of the prior snapshot (resume mode)
    seen_titles,   \* lower-cased page titles already taken up in this run
    dataset,       \* the in-memory dataset: [retrieved_at, characters]
    files,         \* the files <out>/characters.json ("final") and
                   \* <out>/characters.json.tmp ("tmp")
    imageFiles,    \* the files under <out>/images/: path -> content
    saveKind,      \* which save is running: "checkpoint", "final" or "none"
    exit_code,     \* the value main() returned, -1 while it runs
    last,          \* what the latest loop iteration did (history)
    persisted,     \* the document the latest completed save left (history)
    prior,         \* the file found at start (history)
    nCheckpoint,   \* number of checkpoint saves started (history)
    nFinal,        \* number of final saves started (history)
    \* ---- serving layer (main.py) ----
    stored,        \* the dataset file at DATA_JSON_PATH
    cache,         \* lru_cache of load_dataset
    req,           \* the latest request
    resp,          \* the response to it
    \* ---- serving layer, requests handled by concurrent threads ----
    thr,           \* thread -> its position, request, locals and response
    nReads,        \* number of times the dataset file was opened (history)
    \* ---- functions applied to one input ----
    call,          \* the function called and its argument
    ret,           \* what it returned
    \* ---- translation pass (translate_data.main) ----
    pass,          \* the process: position, locals, translator, history
    tfiles         \* the files of the pass: input, output and cache

crawlVars == <<pc, resume, links, idx, existing_ids, seen_titles, dataset,
               files, imageFiles, saveKind, exit_code, last,
               persisted, prior, nCheckpoint, nFinal>>
serveVars == <<stored, cache, req, resp>>
concVars == <<thr, nReads>>
pureVars == <<call, ret>>
transVars == <<pass, tfiles>>
extVars == <<concVars, pureVars, transVars>>
vars == <<crawlVars, serveVars, extVars>>

\* None / JSON null: a value that is no text
Null == <<"NULL">>

\* No thread serves, no function is called, no translation pass runs
ExtIdle ==
    /\ thr = <<>>
    /\ nReads = 0
    /\ call = [fn |-> "none"]
    /\ ret = [done |-> FALSE]
    /\ pass = [pc |-> "idle"]
    /\ tfiles = [kind |-> "none"]

(***************************************************************************)
(* Characters and strings                                                  *)
(***************************************************************************)
UpperChars == <<"A","B","C","D","E","F","G","H","I","J","K","L","M",
                "N","O","P","Q","R","S","T","U","V","W","X","Y","Z">>
LowerChars == <<"a","b","c","d","e","f","g","h","i","j","k","l","m",
                "n","o","p","q","r","s","t","u","v","w","x","y","z">>
DigitChars == <<"0","1","2","3","4","5","6","7","8","9">>
Whitespace == {" ", "tab", "nl"}

Range(s) == {s[i] : i \in DOMAIN s}

\* str.lower() of one character
LowerChar(c) ==
    IF \E i \in DOMAIN UpperChars : UpperChars[i] = c
    THEN LowerChars[CHOOSE i \in DOMAIN UpperChars : UpperChars[i] = c]
    ELSE c

\* str.lower()
Lower(s) == [i \in DOMAIN s |-> LowerChar(s[i])]

RECURSIVE LStripSet(_, _)
LStripSet(s, cs) ==
    IF s # <<>> /\ Head(s) \in cs THEN LStripSet(Tail(s), cs) ELSE s

RECURSIVE RStripSet(_, _)
RStripSet(s, cs) ==
    IF s # <<>> /\ s[Len(s)] \in cs
    THEN RStripSet(SubSeq(s, 1, Len(s) - 1), cs)
    ELSE s

\* str.strip()
Strip(s) == RStripSet(LStripSet(s, Whitespace), Whitespace)

\* str.strip(chars)
StripSet(s, cs) == RStripSet(LStripSet(s, cs), cs)

\* The pieces of a sequence of texts, one after the other (by halves, so
\* that a long text is no deep recursion)
RECURSIVE Concat(_)
Concat(pieces) ==
    IF pieces = <<>> THEN <<>>
    ELSE IF Len(pieces) = 1 THEN pieces[1]
    ELSE LET h == Len(pieces) \div 2
         IN  Concat(SubSeq(pieces, 1, h))
                 \o Concat(SubSeq(pieces, h + 1, Len(pieces)))

\* str.replace(c, t) for a one-character c
ReplaceChar(s, c, t) ==
    Concat([i \in DOMAIN s |-> IF s[i] = c THEN t ELSE <<s[i]>>])

\* re.sub("[cs]+", t, s): every maximal run of characters of cs becomes t
SubRuns(s, cs, t) ==
    Concat([i \in DOMAIN s |->
               IF s[i] \notin cs THEN <<s[i]>>
               ELSE IF i > 1 /\ s[i - 1] \in cs THEN <<>>
               ELSE t])

\* re.sub("c{2,}", c, s): every run of two or more c becomes one c
SubRepeats(s, c) ==
    Concat([i \in DOMAIN s |->
               IF s[i] # c THEN <<s[i]>>
               ELSE IF i > 1 /\ s[i - 1] = c THEN <<>>
               ELSE <<c>>])

\* [a-z0-9\-]
SlugChars == Range(LowerChars) \cup Range(DigitChars) \cup {"-"}

\* re.sub("[^cs]", t, s) for a one-character class: every character outside
\* keep becomes t (t may be empty)
SubOutside(s, keep, t) ==
    Concat([i \in DOMAIN s |-> IF s[i] \in keep THEN <<s[i]>> ELSE t])

\* download_data.slugify
slugify_keep_only(title) ==
    LET s1 == Lower(Strip(title))
        s2 == ReplaceChar(s1, "&", <<"a", "n", "d">>)
        s3 == ReplaceChar(s2, "rsquo", <<"'">>)
        s4 == SubOutside(s3, (Range(s3) \ {"\"", "ldquo", "rdquo"}), <<>>)
        s5 == SubRuns(s4, Whitespace \cup {"_"}, <<"-">>)
        s7 == StripSet(SubRepeats(s5, "-"), {"-"})
        s8 == SubOutside(s7, SlugChars, <<>>)
    IN  IF s8 = <<>> THEN <<"i", "t", "e", "m">> ELSE s8
slugify(title) ==
    LET s1 == Lower(Strip(title))
        s2 == ReplaceChar(s1, "&", <<"a", "n", "d">>)
        s3 == ReplaceChar(s2, "rsquo", <<"'">>)
        s4 == SubOutside(s3, (Range(s3) \ {"\"", "ldquo", "rdquo"}), <<>>)
        s5 == SubRuns(s4, Whitespace \cup {"_"}, <<"-">>)
        s6 == SubOutside(s5, SlugChars, <<"-">>)
        s7 == StripSet(SubRepeats(s6, "-"), {"-"})
        s8 == SubOutside(s7, SlugChars, <<>>)
    IN  IF s8 = <<>> THEN <<"i", "t", "e", "m">> ELSE s8


(***************************************************************************)
(* The crawler: download_data.main                                         *)
(***************************************************************************)
\* Bounds of the model
NLinks == 11
MaxPrior == 9

\* "checkpoint every 10"
CheckpointEvery == 10

\* The i-th character of 0..9a..z, to build distinct titles
IdxChar(i) == (DigitChars \o LowerChars)[i + 1]

\* The title part of the URL of the i-th discovered link, unquoted.  Links 2,
\* 3 and 5 lead to the same id "a-b": 2 and 3 by slugify, 5 by a redirect.
\* Link 4 differs from link 2 only by a blank where 2 has an underscore.
\* Link 1 is the page of the first record of a prior snapshot.
LinkTitle(i) ==
    CASE i = 1 -> <<"P", "1">>
      [] i = 2 -> <<"A", "_", "b">>
      [] i = 3 -> <<"A", "-", "b">>
      [] i = 4 -> <<"A", " ", "b">>
      [] i = 5 -> <<"R">>
      [] OTHER -> <<"N", IdxChar(i)>>

\* extract_character_links_from_list_html's output: (link_text, abs_url)
\* pairs; the display text is an opaque value, one per link
DiscoveredLinks == [i \in 1..NLinks |-> [text |-> i, title |-> LinkTitle(i)]]

\* page_title = title_from_wiki_url(abs_url) or link_text, blanks to "_"
PageTitle(link) == ReplaceChar(link.title, " ", <<"_">>)

\* The wiki's answer to page_meta: the normalized title of a page.  The page
\* "R" is a redirect to "A b".
WikiTitle(page_title) ==
    IF page_title = <<"R">> THEN <<"A", " ", "b">>
    ELSE ReplaceChar(page_title, "_", <<" ">>)

\* norm_title = meta.get("title") or page_title.replace("_", " ")
NormTitle(link) == WikiTitle(PageTitle(link))

\* char_id = slugify(norm_title)
CharId(link) == slugify(NormTitle(link))

\* What the page of the i-th link offers as image: a file reference whose
\* metadata hold a URL ("file"), an infobox image without file reference
\* ("thumb"), nothing ("none"), a file reference whose metadata hold no URL
\* ("file_nourl")
ImageSource(i) ==
    CASE i % 4 = 1 -> "file"
      [] i % 4 = 2 -> "thumb"
      [] i % 4 = 3 -> "none"
      [] OTHER     -> "file_nourl"

\* The bytes a download for the i-th link returns: an opaque value per link
Content(i) == i

\* sha256_hex
sha256_hex(b) == <<"sha256", b>>

\* A file: absent, or a JSON document that is complete or cut short
NoFile == [exists |-> FALSE, complete |-> FALSE, retrieved_at |-> 0,
           characters |-> <<>>]
Doc(ds) == [exists |-> TRUE, complete |-> TRUE,
            retrieved_at |-> ds.retrieved_at, characters |-> ds.characters]
PartialDoc(ds, n) ==
    [exists |-> TRUE, complete |-> FALSE, retrieved_at |-> ds.retrieved_at,
     characters |-> SubSeq(ds.characters, 1, n)]

\* The j-th record of a prior snapshot, written by an earlier run
PriorRecord(j) ==
    [id |-> <<"p", IdxChar(j)>>, name |-> <<"P", IdxChar(j)>>,
     link_text_from_list |-> 100 + j,
     image |-> [local_path |-> Null, sha256 |-> Null]]

PriorLens == {0, 3, MaxPrior}

PriorFile(k) ==
    IF k = 0 THEN NoFile
    ELSE Doc([retrieved_at |-> 0,
              characters |-> [j \in 1..k |-> PriorRecord(j)]])

\* existing = load_existing(out_json) if args.resume else {}
load_existing(file, r) == IF r /\ file.exists THEN file ELSE NoFile

\* existing_ids: the ids of the records of `existing`
ExistingIds(existing) ==
    {existing.characters[j].id : j \in DOMAIN existing.characters}

\* dataset = existing if (args.resume and existing) else {fresh}, and the
\* refreshed meta timestamp
InitialDatasetFresh(existing, r) == [retrieved_at |-> 1, characters |-> <<>>]
InitialDataset(existing, r) ==
    IF r /\ existing.exists
    THEN [retrieved_at |-> 1, characters |-> existing.characters]
    ELSE [retrieved_at |-> 1, characters |-> <<>>]

NoIteration == [link |-> 0, outcome |-> "none", meta |-> FALSE,
                parsed |-> FALSE, normalized |-> FALSE, downloaded |-> FALSE]

\* The serving layer before its first request, with no dataset file
InitServeIdle ==
    /\ stored = [kind |-> "missing"]
    /\ cache = [loaded |-> FALSE]
    /\ req = [route |-> "none"]
    /\ resp = [status |-> 0]

Init ==
    /\ \E k \in PriorLens, r \in BOOLEAN :
          /\ prior = PriorFile(k)
          /\ resume = r
          /\ existing_ids = ExistingIds(load_existing(PriorFile(k), r))
          /\ dataset = InitialDataset(load_existing(PriorFile(k), r), r)
    /\ files = [final |-> prior, tmp |-> NoFile]
    /\ persisted = prior
    /\ links = DiscoveredLinks
    /\ idx = 1
    /\ seen_titles = {}
    /\ imageFiles = <<>>
    /\ pc = "loop"
    /\ saveKind = "none"
    /\ exit_code = -1
    /\ last = NoIteration
    /\ nCheckpoint = 0
    /\ nFinal = 0
    /\ InitServeIdle
    /\ ExtIdle


\* tmp = path + ".tmp": the file save_json writes the document to
TmpPathIsFinal == "final"
TmpPath == "tmp"

\* if len(dataset["characters"]) % 10 == 0
CheckpointDueNewly(ds) ==
    (Len(ds.characters) - Len(InitialDataset(load_existing(prior, resume),
                                             resume).characters))
        % CheckpointEvery = 0
CheckpointDue(ds) == Len(ds.characters) % CheckpointEvery = 0

\* if args.resume and char_id in existing_ids
ShouldSkipNever(char_id) == FALSE
ShouldSkip(char_id) == resume /\ char_id \in existing_ids

\* images/<char_id>.<ext>
LocalPath(char_id) == <<"images", char_id, "png">>

\* char_obj, as far as the model follows it
CharObj(i, withImage) ==
    [id |-> CharId(links[i]),
     name |-> NormTitle(links[i]),
     link_text_from_list |-> links[i].text,
     image |-> IF withImage
               THEN [local_path |-> LocalPath(CharId(links[i])),
                     sha256 |-> sha256_hex(Content(i))]
               ELSE [local_path |-> Null, sha256 |-> Null]]

\* The loop is at a link whose title it has not taken up yet
AtFreshLink ==
    /\ pc = "loop"
    /\ idx <= Len(links)
    /\ Lower(PageTitle(links[idx])) \notin seen_titles

TakeUpTitle ==
    seen_titles' = seen_titles \cup {Lower(PageTitle(links[idx]))}

\* except Exception as e: print("[WARN] ..."), and the loop goes on
ExceptReraise ==
    /\ pc' = "done"
    /\ exit_code' = 1
    /\ idx' = idx
ExceptHandler ==
    /\ pc' = "loop"
    /\ exit_code' = exit_code
    /\ idx' = idx + 1

\* What a failed iteration leaves alone
FailureFrame ==
    UNCHANGED <<resume, links, existing_ids, dataset, files, imageFiles,
                saveKind, persisted, prior, nCheckpoint, nFinal, serveVars, extVars>>

\* if page_title.lower() in seen_titles: continue
LinkSeen ==
    /\ pc = "loop"
    /\ idx <= Len(links)
    /\ Lower(PageTitle(links[idx])) \in seen_titles
    /\ idx' = idx + 1
    /\ last' = [NoIteration EXCEPT !.link = idx, !.outcome = "seen"]
    /\ UNCHANGED <<pc, resume, links, existing_ids, seen_titles, dataset,
                   files, imageFiles, saveKind, exit_code, persisted, prior,
                   nCheckpoint, nFinal, serveVars, extVars>>

\* client.page_meta raises (after its retries)
LinkMetaFails ==
    /\ AtFreshLink
    /\ TakeUpTitle
    /\ last' = [NoIteration EXCEPT !.link = idx, !.outcome = "meta_failed"]
    /\ ExceptHandler
    /\ FailureFrame

\* [SKIP]: the derived id is in existing_ids
LinkSkipped ==
    /\ AtFreshLink
    /\ ShouldSkip(CharId(links[idx]))
    /\ TakeUpTitle
    /\ idx' = idx + 1
    /\ last' = [NoIteration EXCEPT !.link = idx, !.outcome = "skipped",
                                   !.meta = TRUE]
    /\ UNCHANGED <<pc, resume, links, existing_ids, dataset, files,
                   imageFiles, saveKind, exit_code, persisted, prior,
                   nCheckpoint, nFinal, serveVars, extVars>>

\* client.parse_html raises: the request fails, the API answers an error,
\* or the markup is empty
LinkMarkupFails ==
    /\ AtFreshLink
    /\ ~ShouldSkip(CharId(links[idx]))
    /\ TakeUpTitle
    /\ last' = [NoIteration EXCEPT !.link = idx, !.outcome = "markup_failed",
                                   !.meta = TRUE]
    /\ ExceptHandler
    /\ FailureFrame

\* parse_portable_infobox or extract_lead_summary raises
LinkNormalizeFails ==
    /\ AtFreshLink
    /\ ~ShouldSkip(CharId(links[idx]))
    /\ TakeUpTitle
    /\ last' = [NoIteration EXCEPT !.link = idx,
                                   !.outcome = "normalize_failed",
                                   !.meta = TRUE, !.parsed = TRUE]
    /\ ExceptHandler
    /\ FailureFrame

\* client.image_info or client.download raises (after its retries)
LinkImageFails ==
    /\ AtFreshLink
    /\ ~ShouldSkip(CharId(links[idx]))
    /\ ImageSource(idx) \in {"file", "file_nourl", "thumb"}
    /\ TakeUpTitle
    /\ last' = [NoIteration EXCEPT !.link = idx, !.outcome = "image_failed",
                                   !.meta = TRUE, !.parsed = TRUE,
                                   !.normalized = TRUE]
    /\ ExceptHandler
    /\ FailureFrame

\* Every call succeeds: the image (if the page has one) is written, the
\* record is appended, and a checkpoint save starts if one is due
LinkAppended ==
    /\ AtFreshLink
    /\ ~ShouldSkip(CharId(links[idx]))
    /\ TakeUpTitle
    /\ LET withImage == ImageSource(idx) \in {"file", "thumb"}
           ds == [dataset EXCEPT
                    !.characters = Append(@, CharObj(idx, withImage))]
       IN  /\ dataset' = ds
           /\ imageFiles' =
                IF withImage
                THEN (LocalPath(CharId(links[idx])) :> Content(idx))
                     @@ imageFiles
                ELSE imageFiles
           /\ last' = [NoIteration EXCEPT !.link = idx,
                                          !.outcome = "appended",
                                          !.meta = TRUE, !.parsed = TRUE,
                                          !.normalized = TRUE,
                                          !.downloaded = withImage]
           /\ IF CheckpointDue(ds)
              THEN /\ pc' = "save_open"
                   /\ saveKind' = "checkpoint"
                   /\ nCheckpoint' = nCheckpoint + 1
              ELSE /\ pc' = "loop"
                   /\ saveKind' = saveKind
                   /\ nCheckpoint' = nCheckpoint
    /\ idx' = idx + 1
    /\ UNCHANGED <<resume, links, existing_ids, files, exit_code, persisted,
                   prior, nFinal, serveVars, extVars>>

\* # final save
BeginFinalSave ==
    /\ pc = "loop"
    /\ idx > Len(links)
    /\ pc' = "save_open"
    /\ saveKind' = "final"
    /\ nFinal' = nFinal + 1
    /\ UNCHANGED <<resume, links, idx, existing_ids, seen_titles, dataset,
                   files, imageFiles, exit_code, last, persisted, prior,
                   nCheckpoint, serveVars, extVars>>

SaveFrame ==
    UNCHANGED <<resume, links, idx, existing_ids, seen_titles, dataset,
                imageFiles, last, prior, nCheckpoint, nFinal, serveVars, extVars>>

\* save_json: open(tmp, "w") creates or truncates the file
SaveOpen ==
    /\ pc = "save_open"
    /\ files' = [files EXCEPT ![TmpPath] = PartialDoc(dataset, 0)]
    /\ pc' = "save_write"
    /\ UNCHANGED <<saveKind, exit_code, persisted>>
    /\ SaveFrame

\* save_json: json.dump has written the document up to some record
SaveWrite ==
    /\ pc = "save_write"
    /\ \E n \in 1..Len(dataset.characters) :
          /\ n > Len(files[TmpPath].characters)
          /\ files' = [files EXCEPT ![TmpPath] = PartialDoc(dataset, n)]
    /\ UNCHANGED <<pc, saveKind, exit_code, persisted>>
    /\ SaveFrame

\* save_json: json.dump is through and the file is closed
SaveClose ==
    /\ pc = "save_write"
    /\ files' = [files EXCEPT ![TmpPath] = Doc(dataset)]
    /\ pc' = "save_replace"
    /\ UNCHANGED <<saveKind, exit_code, persisted>>
    /\ SaveFrame

\* os.replace(src, dst)
Replace(fs, src, dst) ==
    IF src = dst THEN fs
    ELSE [fs EXCEPT ![dst] = fs[src], ![src] = NoFile]

\* save_json: os.replace(tmp, path); after the final save main returns 0
SaveReplace ==
    /\ pc = "save_replace"
    /\ files' = Replace(files, TmpPath, "final")
    /\ persisted' = files'["final"]
    /\ saveKind' = "none"
    /\ IF saveKind = "final"
       THEN pc' = "done" /\ exit_code' = 0
       ELSE pc' = "loop" /\ exit_code' = exit_code
    /\ SaveFrame

\* The process is killed or the machine goes down
Crash ==
    /\ pc \notin {"done", "crashed"}
    /\ pc' = "crashed"
    /\ UNCHANGED <<resume, links, idx, existing_ids, seen_titles, dataset,
                   files, imageFiles, saveKind, exit_code, last, persisted,
                   prior, nCheckpoint, nFinal, serveVars, extVars>>

Next ==
    \/ LinkSeen
    \/ LinkMetaFails
    \/ LinkSkipped
    \/ LinkMarkupFails
    \/ LinkNormalizeFails
    \/ LinkImageFails
    \/ LinkAppended
    \/ BeginFinalSave
    \/ SaveOpen
    \/ SaveWrite
    \/ SaveClose
    \/ SaveReplace
    \/ Crash

Spec == Init /\ [][Next]_vars


(***************************************************************************)
(* Properties of the crawler                                               *)
(***************************************************************************)
Characters == dataset.characters

\* The ids and the number of records the run started from
PriorIds == {prior.characters[j].id : j \in DOMAIN prior.characters}
StartLen == IF resume THEN Len(prior.characters) ELSE 0
NewIndexes == (StartLen + 1)..Len(Characters)

IsPrefix(s, t) == Len(s) <= Len(t) /\ SubSeq(t, 1, Len(s)) = s

FailedOutcomes ==
    {"meta_failed", "markup_failed", "normalize_failed", "image_failed"}

\* C1: after a crawl run no two records of the dataset have the same id.
C1_UniqueIds ==
    pc = "done" =>
        \A i, j \in DOMAIN Characters :
            i # j => Characters[i].id # Characters[j].id

\* C2: when the metadata and the markup of a link were fetched and the image
\* lookup or download failed, the dataset holds a record for that link, with
\* no image.
C2_ImageFailureKeepsRecord ==
    last.outcome = "image_failed" =>
        \E j \in DOMAIN Characters :
            /\ Characters[j].link_text_from_list = links[last.link].text
            /\ Characters[j].image.local_path = Null

\* C3: a failed link adds no record and changes none, the loop goes on with
\* the next link, and the run ends with the final save and exit code 0.
C3_FailuresDoNotAbort ==
    /\ [](pc = "done" =>
            /\ exit_code = 0
            /\ idx = Len(links) + 1
            /\ nFinal = 1
            /\ files["final"] = Doc(dataset))
    /\ [][(last' # last /\ last'.outcome \in FailedOutcomes) =>
            /\ dataset' = dataset
            /\ idx' = idx + 1
            /\ pc' = "loop"]_vars

\* C3 witness: the run is over, the link before the last one failed (it is
\* neither skipped nor a repeated title, and has no record) and the last
\* link got its record.
C3_Witness ==
    /\ pc = "done"
    /\ last.link = NLinks
    /\ last.outcome = "appended"
    /\ ~\E j \in DOMAIN Characters :
            Characters[j].link_text_from_list = links[NLinks - 1].text
    /\ CharId(links[NLinks - 1]) \notin PriorIds

\* C4: in resume mode a link whose derived id is among the prior snapshot's
\* ids has no markup fetched, nothing normalized, no image downloaded and no
\* record appended.
C4_ResumeSkipsPriorIds ==
    resume =>
        /\ (last.meta /\ CharId(links[last.link]) \in PriorIds) =>
              /\ ~last.parsed
              /\ ~last.normalized
              /\ ~last.downloaded
              /\ last.outcome = "skipped"
        /\ \A j \in NewIndexes : Characters[j].id \notin PriorIds

C4_Witness ==
    /\ resume
    /\ last.outcome = "skipped"
    /\ last.meta
    /\ CharId(links[last.link]) \in PriorIds
    /\ Len(Characters) = Len(prior.characters)

\* C5: in resume mode the prior records stay a prefix of the record
\* sequence, unchanged and in order; a step appends one record or leaves the
\* sequence alone, and no link gets two records.
C5_PriorIsPrefix ==
    /\ [](resume =>
            /\ IsPrefix(prior.characters, Characters)
            /\ (pc = "done" =>
                  IsPrefix(prior.characters, files["final"].characters)))
    /\ [](\A i, j \in NewIndexes :
            i # j => Characters[i].link_text_from_list
                        # Characters[j].link_text_from_list)
    /\ [][\/ dataset'.characters = Characters
          \/ /\ Len(dataset'.characters) = Len(Characters) + 1
             /\ IsPrefix(Characters, dataset'.characters)]_vars

C5_Witness ==
    /\ resume
    /\ prior.exists
    /\ pc = "done"
    /\ Len(Characters) > Len(prior.characters) + 1

\* C6 as amended: a checkpoint save starts exactly when an append brings the
\* total number of records of the dataset (prior ones included) to a
\* multiple of 10; one final save follows the last link; each save leaves
\* the full dataset at the final path.
C6_CheckpointAtTotalMultiple ==
    /\ nCheckpoint = (Len(Characters) \div CheckpointEvery)
                        - (StartLen \div CheckpointEvery)
    /\ nFinal = IF pc = "done" \/ saveKind = "final" THEN 1 ELSE 0
    /\ (pc = "done" => files["final"] = Doc(dataset))
    /\ (pc = "loop" /\ last.outcome = "appended"
          /\ Len(Characters) % CheckpointEvery = 0
            => files["final"] = Doc(dataset))

\* C6 as claimed: a checkpoint save starts exactly when the number of records
\* added in this run reaches a multiple of 10.
C6_CheckpointAtNewlyMultiple ==
    /\ nCheckpoint = (Len(Characters) - StartLen) \div CheckpointEvery
    /\ nFinal = IF pc = "done" \/ saveKind = "final" THEN 1 ELSE 0

C6_Witness ==
    /\ resume
    /\ StartLen % CheckpointEvery # 0
    /\ nCheckpoint = 1
    /\ pc = "done"

\* C7: the file at the final path is always absent (never written) or a
\* complete document: the one the latest completed save left, which is the
\* prior file until the first save completes.
C7_AtomicSave ==
    /\ files["final"] = persisted
    /\ (files["final"].exists => files["final"].complete)
    /\ (files["tmp"].exists =>
            pc \in {"save_write", "save_replace", "crashed"})

\* C7 witness: a crash in the middle of json.dump, with an older complete
\* document at the final path.
C7_Witness ==
    /\ pc = "crashed"
    /\ files["tmp"].exists
    /\ ~files["tmp"].complete
    /\ Len(files["tmp"].characters) > 0
    /\ files["final"].exists
    /\ files["final"].complete
    /\ files["final"] # Doc(dataset)


(***************************************************************************)
(* The serving layer: main.py                                              *)
(***************************************************************************)
\* Bounds of the model
MaxStored == 2
MaxPathLen == 4

\* {1,80} of ID_RE
IdMaxLen == 80

\* ID_RE.match(cid): ^[a-z0-9-]{1,80}$, where Python's $ also matches just
\* before a line feed that ends the string
ID_RE_match(cid) ==
    LET body == IF cid # <<>> /\ cid[Len(cid)] = "nl"
                THEN SubSeq(cid, 1, Len(cid) - 1)
                ELSE cid
    IN  /\ Len(body) >= 1
        /\ Len(body) <= IdMaxLen
        /\ \A i \in DOMAIN body : body[i] \in SlugChars

\* str(v) of a JSON value: a text is itself, None is "None"
Str(v) == IF v = Null THEN <<"N", "o", "n", "e">> ELSE v

\* _is_truthy_profile_flat; a JSON object is a sequence of <<key, value>>
\* pairs, anything that is no object is Null here
IsAnyDict(v) == v # Null
_is_truthy_profile_flat(v) ==
    /\ v # Null
    /\ \E i \in DOMAIN v :
          Strip(Str(v[i][1])) # <<>> /\ Strip(Str(v[i][2])) # <<>>

\* The characters in the order of their code points
CodeOrder ==
    <<"tab", "nl", " ", "\"", "&", "'", "(", ")", "-">> \o DigitChars
        \o <<":">> \o UpperChars \o <<"_">> \o LowerChars
        \o <<"rsquo", "ldquo", "rdquo">>
Ord(c) == CHOOSE i \in DOMAIN CodeOrder : CodeOrder[i] = c

\* a < b for two texts, as Python compares str
RECURSIVE StrLess(_, _)
StrLess(a, b) ==
    IF b = <<>> THEN FALSE
    ELSE IF a = <<>> THEN TRUE
    ELSE IF Head(a) = Head(b) THEN StrLess(Tail(a), Tail(b))
    ELSE Ord(Head(a)) < Ord(Head(b))

\* list.sort(key=...): a stable sort of <<key, item>> pairs by their keys
RECURSIVE InsertSorted(_, _)
InsertSorted(x, sorted) ==
    IF sorted = <<>> THEN <<x>>
    ELSE IF StrLess(x[1], Head(sorted)[1])
         THEN <<x>> \o sorted
         ELSE <<Head(sorted)>> \o InsertSorted(x, Tail(sorted))

RECURSIVE SortKeyed(_)
SortKeyed(seq) ==
    IF seq = <<>> THEN <<>>
    ELSE InsertSorted(seq[Len(seq)], SortKeyed(SubSeq(seq, 1, Len(seq) - 1)))

\* The items of a sorted sequence of <<key, item>> pairs
Items(keyed) == [i \in DOMAIN keyed |-> keyed[i][2]]

\* filtered.sort(key=lambda x: x["name"].lower())
SortByName(objs) ==
    Items(SortKeyed([i \in DOMAIN objs |-> <<Lower(objs[i].name), objs[i]>>]))

\* The compact object load_dataset builds of a stored record
CompactObj(ch) ==
    [id |-> ch.id,
     name |-> Strip(ch.name),
     image_local_path |-> ch.image_local_path,
     profile_flat |-> ch.profile_flat,
     source_page_url |-> ch.source_page_url,
     source_attribution |-> ch.source_attribution]

\* load_dataset's tests of a stored record
Retained(ch) ==
    /\ ch.isdict
    /\ ch.id # Null /\ ID_RE_match(ch.id)
    /\ ch.name # Null /\ Strip(ch.name) # <<>>
    /\ _is_truthy_profile_flat(ch.profile_flat)

RECURSIVE FilterRetained(_)
FilterRetained(chars) ==
    IF chars = <<>> THEN <<>>
    ELSE (IF Retained(Head(chars)) THEN <<CompactObj(Head(chars))>>
          ELSE <<>>) \o FilterRetained(Tail(chars))

\* by_id[cid] = obj, in the order of the file: the last record of an id wins
ById(filtered) ==
    [cid \in {filtered[i].id : i \in DOMAIN filtered} |->
        filtered[CHOOSE i \in DOMAIN filtered :
                    /\ filtered[i].id = cid
                    /\ \A j \in DOMAIN filtered :
                          filtered[j].id = cid => j <= i]]

\* load_dataset (without its cache): what it returns, or ok = FALSE when it
\* raises
load_dataset(file) ==
    IF file.kind = "missing"
    THEN [ok |-> FALSE, exc |-> "Datenset nicht gefunden"]
    ELSE IF file.kind # "object"
    THEN [ok |-> FALSE, exc |-> "Root muss ein Objekt sein"]
    ELSE IF ~file.characters_is_list
    THEN [ok |-> FALSE, exc |-> "'characters' muss eine Liste sein"]
    ELSE LET filtered == FilterRetained(file.characters)
         IN  [ok |-> TRUE,
              characters |-> SortByName(filtered),
              by_id |-> ById(filtered)]

\* _media_url_for_local_path; a path is the sequence of its segments
\* ("images/a.png" is <<"images", "a.png">>, "" between two slashes)
RECURSIVE LStripSlash(_)
LStripSlash(path) ==
    IF Len(path) > 1 /\ Head(path) = "" THEN LStripSlash(Tail(path))
    ELSE path

\* str.startswith(MEDIA_ALLOWED_PREFIX)
StartsWithAllowedPrefix(path) == Len(path) >= 2 /\ path[1] = "images"

_media_url_for_local_path(local_path) ==
    IF local_path = Null THEN Null
    ELSE IF ~StartsWithAllowedPrefix(LStripSlash(local_path)) THEN Null
    ELSE <<"media">> \o LStripSlash(local_path)

\* The object the two API routes return of a compact object
ApiObj(ch) ==
    [id |-> ch.id,
     name |-> ch.name,
     image_url |-> _media_url_for_local_path(ch.image_local_path),
     profile_flat |-> ch.profile_flat,
     source_page_url |-> ch.source_page_url,
     source_attribution |-> ch.source_attribution]

\* sorted(((str(k), str(v)) ...), key=lambda kv: kv[0].lower())
ProfileItems(pf) ==
    Items(SortKeyed([i \in DOMAIN pf |->
                       <<Lower(Str(pf[i][1])),
                         <<Str(pf[i][1]), Str(pf[i][2])>>>>]))

\* The object _render_page hands to the template of a compact object
ViewObj(ch) ==
    [id |-> ch.id,
     name |-> ch.name,
     image_url |-> _media_url_for_local_path(ch.image_local_path),
     profile_items |-> ProfileItems(ch.profile_flat),
     source_page_url |-> ch.source_page_url,
     source_attribution |-> ch.source_attribution]

\* index(): the page, with the gallery or the error panel
index(ds) ==
    IF ds.ok
    THEN [status |-> 200, error |-> Null,
          characters |-> [i \in DOMAIN ds.characters |->
                             ViewObj(ds.characters[i])]]
    ELSE [status |-> 200, error |-> <<"Datenset konnte nicht geladen werden">>,
          characters |-> <<>>]

\* api_characters()
api_characters_exc(ds) ==
    IF ds.ok
    THEN [status |-> 200, ok |-> TRUE, count |-> Len(ds.characters),
          characters |-> [i \in DOMAIN ds.characters |->
                             ApiObj(ds.characters[i])]]
    ELSE [status |-> 500, ok |-> FALSE, error |-> ds.exc]
api_characters(ds) ==
    IF ds.ok
    THEN [status |-> 200, ok |-> TRUE, count |-> Len(ds.characters),
          characters |-> [i \in DOMAIN ds.characters |->
                             ApiObj(ds.characters[i])]]
    ELSE [status |-> 500, ok |-> FALSE, error |-> "dataset not available"]

\* api_character(cid); ds is what load_dataset gives when it is called
api_character_load_first(cid, ds) ==
    IF ~ds.ok
    THEN [status |-> 500, ok |-> FALSE, error |-> "dataset not available"]
    ELSE IF ~ID_RE_match(cid)
    THEN [status |-> 400, ok |-> FALSE, error |-> "invalid id"]
    ELSE IF cid \notin DOMAIN ds.by_id
    THEN [status |-> 404, ok |-> FALSE, error |-> "not found"]
    ELSE [status |-> 200, ok |-> TRUE, character |-> ApiObj(ds.by_id[cid])]
api_character(cid, ds) ==
    IF ~ID_RE_match(cid)
    THEN [status |-> 400, ok |-> FALSE, error |-> "invalid id"]
    ELSE IF ~ds.ok
    THEN [status |-> 500, ok |-> FALSE, error |-> "dataset not available"]
    ELSE IF cid \notin DOMAIN ds.by_id
    THEN [status |-> 404, ok |-> FALSE, error |-> "not found"]
    ELSE [status |-> 200, ok |-> TRUE, character |-> ApiObj(ds.by_id[cid])]


\* A text of n letters "a"
LongId(n) == [i \in 1..n |-> "a"]

\* A record of a dataset file, as far as load_dataset reads it
StoredRecord(id, name, profile_flat, local_path) ==
    [isdict |-> TRUE, id |-> id, name |-> name,
     profile_flat |-> profile_flat, image_local_path |-> local_path,
     source_page_url |-> <<"u">> \o Str(id),
     source_attribution |-> <<"t">> \o Str(id)]

\* The entries a dataset file of the model is made of: records the serving
\* layer retains, records it drops for their profile_flat, their id or their
\* name, two records of one id, and an entry that is no object
StoredRecords ==
    { StoredRecord(<<"a">>, <<"X", "a">>, << <<<<"L">>, <<"v">>>> >>,
                   <<"images", "a.png">>),
      StoredRecord(<<"a">>, <<" ", "b", " ">>,
                   << <<<<"L">>, <<" ">>>>, <<<<"M">>, <<"w">>>> >>, Null),
      StoredRecord(<<"b">>, <<"B">>,
                   << <<<<" ">>, <<"v">>>>, <<<<"L">>, <<>>>> >>, Null),
      StoredRecord(<<"b">>, <<"Z">>, <<>>, <<"images", "b.png">>),
      StoredRecord(<<"b">>, <<"c">>, Null, Null),
      StoredRecord(<<"c">>, <<"C">>, << <<<<"L">>, Null>> >>,
                   <<"other", "c.png">>),
      StoredRecord(<<"A">>, <<"X">>, << <<<<"L">>, <<"v">>>> >>, Null),
      StoredRecord(<<"b">>, <<" ">>, << <<<<"L">>, <<"v">>>> >>, Null),
      StoredRecord(Null, <<"N">>, << <<<<"L">>, <<"v">>>> >>, Null),
      StoredRecord(LongId(IdMaxLen), <<"y">>, << <<<<"L">>, <<"v">>>> >>,
                   Null),
      StoredRecord(LongId(IdMaxLen + 1), <<"z">>, << <<<<"L">>, <<"v">>>> >>,
                   Null),
      [StoredRecord(<<"b">>, <<"D">>, << <<<<"L">>, <<"v">>>> >>, Null)
         EXCEPT !.isdict = FALSE] }

SeqsUpTo(S, n) == UNION {[1..k -> S] : k \in 0..n}

\* The dataset files of the model: missing, a JSON root that is no object,
\* an object whose "characters" is no list, and objects with a list
StoredFiles ==
    {[kind |-> "missing"], [kind |-> "not_object"],
     [kind |-> "object", characters_is_list |-> FALSE, characters |-> <<>>]}
    \cup {[kind |-> "object", characters_is_list |-> TRUE, characters |-> cs] :
            cs \in SeqsUpTo(StoredRecords, MaxStored)}

\* The ids requests ask for
RequestIds ==
    {<<"a">>, <<"b">>, <<"c">>, <<"d">>, <<"A">>, <<"a", "nl">>,
     <<"a", " ">>, LongId(IdMaxLen), LongId(IdMaxLen + 1)}

CrawlIdle ==
    /\ pc = "done"
    /\ resume = FALSE
    /\ links = <<>>
    /\ idx = 1
    /\ existing_ids = {}
    /\ seen_titles = {}
    /\ dataset = [retrieved_at |-> 0, characters |-> <<>>]
    /\ files = [final |-> NoFile, tmp |-> NoFile]
    /\ imageFiles = <<>>
    /\ saveKind = "none"
    /\ exit_code = 0
    /\ last = NoIteration
    /\ persisted = NoFile
    /\ prior = NoFile
    /\ nCheckpoint = 0
    /\ nFinal = 0

InitServe ==
    /\ stored \in StoredFiles
    /\ cache = [loaded |-> FALSE]
    /\ req = [route |-> "none"]
    /\ resp = [status |-> 0]
    /\ CrawlIdle
    /\ ExtIdle

\* @lru_cache(maxsize=1): the cached value if there is one; else the call,
\* whose value is cached unless it raises
Loaded == IF cache.loaded THEN cache.value ELSE load_dataset(stored)
CacheAfterLoad ==
    IF cache.loaded \/ ~load_dataset(stored).ok THEN cache
    ELSE [loaded |-> TRUE, value |-> load_dataset(stored)]

\* GET /
GetIndex ==
    /\ req' = [route |-> "index"]
    /\ resp' = index(Loaded)
    /\ cache' = CacheAfterLoad
    /\ UNCHANGED <<stored, crawlVars, extVars>>

\* GET /api/characters
GetApiCharacters ==
    /\ req' = [route |-> "api_characters"]
    /\ resp' = api_characters(Loaded)
    /\ cache' = CacheAfterLoad
    /\ UNCHANGED <<stored, crawlVars, extVars>>

\* GET /api/characters/<cid>
GetApiCharacter ==
    \E cid \in RequestIds :
        /\ req' = [route |-> "api_character", cid |-> cid]
        /\ resp' = api_character(cid, Loaded)
        /\ cache' = IF resp'.status = 400 THEN cache ELSE CacheAfterLoad
        /\ UNCHANGED <<stored, crawlVars, extVars>>

NextServe ==
    \/ GetIndex
    \/ GetApiCharacters
    \/ GetApiCharacter

SpecServe == InitServe /\ [][NextServe]_vars


(***************************************************************************)
(* The serving layer under concurrent requests: app.run() serves every     *)
(* request in a thread of its own.  functools.lru_cache looks the key up,  *)
(* calls the wrapped function without holding a lock, and stores the       *)
(* result unless the key was stored meanwhile; a call that raises stores   *)
(* nothing.                                                                *)
(***************************************************************************)
NThreads == 2
MaxReads == 3

Threads == 1..NThreads

\* The dataset files of the concurrent model
ConcFiles ==
    {f \in StoredFiles : f.kind = "object" => Len(f.characters) <= 1}

\* The ids the concurrent requests ask for
ConcIds == {<<"a">>, <<"A">>}

NoDataset == [ok |-> FALSE, exc |-> "none"]
IdleThread == [pc |-> "idle", route |-> "none", cid |-> <<>>, nth |-> 1,
               ds |-> NoDataset, resp |-> [status |-> 0]]

InitServeConc ==
    /\ stored \in ConcFiles
    /\ cache = [loaded |-> FALSE]
    /\ req = [route |-> "none"]
    /\ resp = [status |-> 0]
    /\ thr = [t \in Threads |-> IdleThread]
    /\ nReads = 0
    /\ call = [fn |-> "none"]
    /\ ret = [done |-> FALSE]
    /\ pass = [pc |-> "idle"]
    /\ tfiles = [kind |-> "none"]
    /\ CrawlIdle

ConcFrame == UNCHANGED <<stored, req, resp, crawlVars, pureVars, transVars>>

\* A request arrives at an idle thread; api_character answers a malformed id
\* before it asks for the dataset
Begin(t) ==
    /\ thr[t].pc = "idle"
    /\ \E route \in {"index", "api_characters", "api_character"} :
       \E cid \in IF route = "api_character" THEN ConcIds ELSE {<<>>} :
          thr' = [thr EXCEPT ![t] =
                    IF route = "api_character" /\ ~ID_RE_match(cid)
                    THEN [IdleThread EXCEPT
                            !.resp = api_character(cid, NoDataset)]
                    ELSE [IdleThread EXCEPT !.pc = "lookup",
                                            !.route = route, !.cid = cid]]
    /\ UNCHANGED <<cache, nReads>>
    /\ ConcFrame

\* After load_dataset() returned: index() goes on to _render_page, which
\* calls load_dataset() a second time; the other handlers build the response
AfterLoad(th) ==
    IF th.route = "index" /\ th.nth = 1
    THEN [th EXCEPT !.pc = "lookup", !.nth = 2]
    ELSE [th EXCEPT !.pc = "respond"]

\* load_dataset(): the cache lookup of lru_cache
CacheLookup(t) ==
    /\ thr[t].pc = "lookup"
    /\ thr' = [thr EXCEPT ![t] =
                 IF cache.loaded
                 THEN AfterLoad([thr[t] EXCEPT !.ds = cache.value])
                 ELSE [thr[t] EXCEPT !.pc = "read"]]
    /\ UNCHANGED <<cache, nReads>>
    /\ ConcFrame

\* load_dataset(): the wrapped function opens the file (if it exists), parses
\* it and builds the snapshot, or raises
ReadFile(t) ==
    /\ thr[t].pc = "read"
    /\ nReads < MaxReads
    /\ nReads' = IF stored.kind = "missing" THEN nReads ELSE nReads + 1
    /\ thr' = [thr EXCEPT ![t] =
                 IF load_dataset(stored).ok
                 THEN [thr[t] EXCEPT !.pc = "store",
                                     !.ds = load_dataset(stored)]
                 ELSE [thr[t] EXCEPT !.pc = "respond",
                                     !.ds = load_dataset(stored)]]
    /\ UNCHANGED cache
    /\ ConcFrame

\* load_dataset(): lru_cache stores the result unless the key is there
CacheStore(t) ==
    /\ thr[t].pc = "store"
    /\ cache' = IF cache.loaded THEN cache
                ELSE [loaded |-> TRUE, value |-> thr[t].ds]
    /\ thr' = [thr EXCEPT ![t] = AfterLoad(thr[t])]
    /\ UNCHANGED nReads
    /\ ConcFrame

\* The handler builds its response of the dataset it obtained
Respond(t) ==
    /\ thr[t].pc = "respond"
    /\ thr' = [thr EXCEPT ![t] =
                 [thr[t] EXCEPT
                    !.pc = "idle",
                    !.resp = CASE thr[t].route = "index" -> index(thr[t].ds)
                               [] thr[t].route = "api_characters" ->
                                     api_characters(thr[t].ds)
                               [] OTHER ->
                                     api_character(thr[t].cid, thr[t].ds)]]
    /\ UNCHANGED <<cache, nReads>>
    /\ ConcFrame

NextServeConc ==
    \E t \in Threads :
        \/ Begin(t)
        \/ CacheLookup(t)
        \/ ReadFile(t)
        \/ CacheStore(t)
        \/ Respond(t)

SpecServeConc == InitServeConc /\ [][NextServeConc]_vars


(***************************************************************************)
(* GET /media/<path>.  A path is the sequence of its segments; the file    *)
(* system holds no symbolic links.                                         *)
(***************************************************************************)
\* os.path.realpath(DATA_BASE_DIR)
BaseReal == <<"srv", "out">>

\* The regular files of the machine, by absolute path
MediaFiles ==
    {<<"srv", "out", "images", "a.png">>, <<"srv", "out", "characters.json">>,
     <<"srv", "out", "a.png">>, <<"etc", "passwd">>}

PathSegments ==
    {"images", "..", "a.png", "characters.json", "etc", "passwd", ""}

RequestPaths == SeqsUpTo(PathSegments, MaxPathLen) \ {<<>>}

\* os.path.realpath of an absolute path: "" and "." are dropped, ".." steps
\* up and stays at the root
RECURSIVE Resolve(_, _)
Resolve(done, rest) ==
    IF rest = <<>> THEN done
    ELSE IF Head(rest) \in {"", "."} THEN Resolve(done, Tail(rest))
    ELSE IF Head(rest) = ".."
         THEN Resolve(IF done = <<>> THEN <<>>
                      ELSE SubSeq(done, 1, Len(done) - 1), Tail(rest))
    ELSE Resolve(Append(done, Head(rest)), Tail(rest))

realpath(path) == Resolve(<<>>, path)

\* candidate.startswith(base_real + os.sep)
StartsWithDir(candidate, dir) ==
    Len(candidate) > Len(dir) /\ SubSeq(candidate, 1, Len(dir)) = dir

\* _safe_realpath
_safe_realpath(base_dir, rel_path) ==
    LET base_real == realpath(base_dir)
        candidate == realpath(base_real \o rel_path)
    IN  IF ~StartsWithDir(candidate, base_real) /\ candidate # base_real
        THEN Null
        ELSE candidate

NotFound == [status |-> 404, ok |-> FALSE, error |-> "not found"]

\* media(relpath)
media(relpath) ==
    LET rel == LStripSlash(relpath)
        safe_abs == _safe_realpath(BaseReal, rel)
    IN  IF ~StartsWithAllowedPrefix(rel) THEN NotFound
        ELSE IF safe_abs = Null \/ safe_abs \notin MediaFiles THEN NotFound
        ELSE [status |-> 200, file |-> safe_abs]

InitMedia ==
    /\ InitServeIdle
    /\ CrawlIdle
    /\ ExtIdle

GetMedia ==
    \E relpath \in RequestPaths :
        /\ req' = [route |-> "media", relpath |-> relpath]
        /\ resp' = media(relpath)
        /\ UNCHANGED <<stored, cache, crawlVars, extVars>>

NextMedia == GetMedia

SpecMedia == InitMedia /\ [][NextMedia]_vars

(***************************************************************************)
(* Properties of the serving layer                                         *)
(***************************************************************************)
ImagesDir == BaseReal \o <<"images">>

\* C8: a media request is answered with a file only if the resolved file lies
\* under the images/ directory of the base directory.
C8_MediaOnlyUnderImages ==
    (req.route = "media" /\ resp.status = 200) =>
        StartsWithDir(resp.file, ImagesDir)

\* A stored record the serving layer serves under the id cid
ServedAs(ch, cid) ==
    /\ ch.isdict
    /\ ch.id = cid
    /\ ID_RE_match(cid)
    /\ ch.name # Null /\ Strip(ch.name) # <<>>
    /\ _is_truthy_profile_flat(ch.profile_flat)

StoredCharacters ==
    IF stored.kind = "object" /\ stored.characters_is_list
    THEN stored.characters
    ELSE <<>>

Loadable == stored.kind = "object" /\ stored.characters_is_list

SomeServedAs(cid) ==
    \E i \in DOMAIN StoredCharacters : ServedAs(StoredCharacters[i], cid)

\* C9: GET /api/characters/<id> answers 400 exactly when the id does not
\* match the pattern, whatever the state of the dataset; with a dataset that
\* loads it answers 404 when the id matches and no served record has it, and
\* 200 with a served record of that id otherwise.
C9_ApiCharacterStatus ==
    req.route = "api_character" =>
        /\ resp.status = 400 <=> ~ID_RE_match(req.cid)
        /\ Loadable =>
              /\ resp.status \in {200, 400, 404}
              /\ resp.status = 404 <=>
                    (ID_RE_match(req.cid) /\ ~SomeServedAs(req.cid))
              /\ resp.status = 200 =>
                    /\ resp.character.id = req.cid
                    /\ \E i \in DOMAIN StoredCharacters :
                          /\ ServedAs(StoredCharacters[i], req.cid)
                          /\ resp.character
                                = ApiObj(CompactObj(StoredCharacters[i]))

\* C9 witness: a malformed id is refused with 400 although the dataset file
\* is missing.
C9_Witness ==
    /\ req.route = "api_character"
    /\ resp.status = 400
    /\ stored.kind = "missing"
    /\ Len(req.cid) = IdMaxLen + 1

\* At least one pair of a profile_flat has a label and a value that are both
\* non-blank (as texts: str(label), str(value))
HasNonBlankPair(pf) ==
    /\ pf # Null
    /\ \E i \in DOMAIN pf :
          /\ Strip(Str(pf[i][1])) # <<>>
          /\ Strip(Str(pf[i][2])) # <<>>

\* The entries of the served view a response shows, as <<id, name, profile>>
ServedEntries ==
    CASE req.route = "api_characters" /\ resp.status = 200 ->
            {<<resp.characters[i].id, resp.characters[i].name,
               ProfileItems(resp.characters[i].profile_flat)>> :
                i \in DOMAIN resp.characters}
      [] req.route = "index" ->
            {<<resp.characters[i].id, resp.characters[i].name,
               resp.characters[i].profile_items>> :
                i \in DOMAIN resp.characters}
      [] req.route = "api_character" /\ resp.status = 200 ->
            {<<resp.character.id, resp.character.name,
               ProfileItems(resp.character.profile_flat)>>}
      [] OTHER -> {}

\* C10: every entry of the served view (listing, gallery, by-id lookup) is a
\* stored record whose profile_flat has a pair with non-blank label and
\* value; and no request changes the dataset file.
C10_ServedHaveProfile ==
    /\ [](\A e \in ServedEntries :
            \E i \in DOMAIN StoredCharacters :
                LET ch == StoredCharacters[i]
                IN  /\ ch.isdict
                    /\ ch.id = e[1]
                    /\ ch.name # Null /\ Strip(ch.name) = e[2]
                    /\ HasNonBlankPair(ch.profile_flat)
                    /\ ProfileItems(ch.profile_flat) = e[3])
    /\ [][stored' = stored]_vars

\* C10 witness: the file holds two records with well-formed id and name, one
\* of them without a non-blank pair; the listing shows one entry.
C10_Witness ==
    /\ req.route = "api_characters"
    /\ resp.status = 200
    /\ resp.count = 1
    /\ Len(StoredCharacters) = 2
    /\ \E i \in DOMAIN StoredCharacters :
          LET ch == StoredCharacters[i]
          IN  /\ ch.isdict
              /\ ch.id # Null /\ ID_RE_match(ch.id)
              /\ ch.name # Null /\ Strip(ch.name) # <<>>
              /\ ~HasNonBlankPair(ch.profile_flat)
              /\ ch.profile_flat # Null
              /\ ch.profile_flat # <<>>

\* C11: under any interleaving of concurrent requests the dataset file is
\* opened and parsed at most once in the lifetime of the process.
C11_DatasetReadAtMostOnce == nReads <= 1

\* The response of the two API routes when the dataset does not load
DatasetNotAvailable ==
    [status |-> 500, ok |-> FALSE, error |-> "dataset not available"]

\* C12: when the dataset file does not load, GET / answers the page with the
\* fixed text of the error panel and no gallery, and GET /api/characters and
\* GET /api/characters/<well-formed id> answer the fixed error "dataset not
\* available"; the response holds nothing else, so no exception message.
C12_FixedErrorResponses ==
    ~Loadable =>
        /\ req.route = "index" =>
              /\ resp.status = 200
              /\ resp.error = <<"Datenset konnte nicht geladen werden">>
              /\ resp.characters = <<>>
        /\ req.route = "api_characters" => resp = DatasetNotAvailable
        /\ (req.route = "api_character" /\ ID_RE_match(req.cid)) =>
              resp = DatasetNotAvailable

\* C12 witness: the root of the dataset file is no object and the listing
\* was asked for.
C12_Witness ==
    /\ stored.kind = "not_object"
    /\ req.route = "api_characters"
    /\ resp.status = 500


(***************************************************************************)
(* The normalizer: parse_portable_infobox and the flat profile of main().  *)
(* An infobox is the sequence of its nodes in document order: a data item  *)
(* [kind = "data", label, value] or a group section [kind = "group",       *)
(* header, items]; a label, value or header element that is absent is      *)
(* Null.                                                                   *)
(***************************************************************************)
MaxNodes == 3

AlnumChars == Range(DigitChars) \cup Range(UpperChars) \cup Range(LowerChars)

\* The length of the match of \[[0-9A-Za-z]+\] at the head of s, 0 if none
MarkerLen(s) ==
    IF s = <<>> \/ Head(s) # "[" THEN 0
    ELSE LET rest == Tail(s)
             k == Len(rest) - Len(LStripSet(rest, AlnumChars))
         IN  IF k >= 1 /\ Len(rest) > k /\ rest[k + 1] = "]" THEN k + 2
             ELSE 0

\* re.sub(r"\[[0-9A-Za-z]+\]", "", s)
RECURSIVE SubMarkers(_)
SubMarkers(s) ==
    IF s = <<>> THEN <<>>
    ELSE IF MarkerLen(s) > 0
         THEN SubMarkers(SubSeq(s, MarkerLen(s) + 1, Len(s)))
         ELSE <<Head(s)>> \o SubMarkers(Tail(s))

\* download_data.clean_text
clean_text(s) ==
    IF s = Null \/ s = <<>> THEN <<>>
    ELSE Strip(SubMarkers(Strip(SubRuns(s, Whitespace, <<" ">>))))

DataItem(label, value) == [kind |-> "data", label |-> label, value |-> value]
GroupNode(header, items) ==
    [kind |-> "group", header |-> header, items |-> items]

\* infobox.select(".pi-item.pi-data"): every data item of the infobox, at
\* any depth, in document order
RECURSIVE SelectData(_)
SelectData(nodes) ==
    IF nodes = <<>> THEN <<>>
    ELSE (IF Head(nodes).kind = "data" THEN <<Head(nodes)>>
          ELSE Head(nodes).items) \o SelectData(Tail(nodes))

\* infobox.select("section.pi-item.pi-group")
RECURSIVE SelectGroups(_)
SelectGroups(nodes) ==
    IF nodes = <<>> THEN <<>>
    ELSE (IF Head(nodes).kind = "group" THEN <<Head(nodes)>> ELSE <<>>)
         \o SelectGroups(Tail(nodes))

\* The loop over data items: the pairs whose label and value elements are
\* there and non-empty after clean_text
RECURSIVE KeptPairs(_)
KeptPairs(items) ==
    IF items = <<>> THEN <<>>
    ELSE LET item == Head(items)
             label == clean_text(item.label)
             value == clean_text(item.value)
         IN  (IF item.label = Null \/ item.value = Null THEN <<>>
              ELSE IF label # <<>> /\ value # <<>>
              THEN <<[label |-> label, value |-> value]>>
              ELSE <<>>) \o KeptPairs(Tail(items))

\* The loop over group sections
RECURSIVE KeptGroups(_)
KeptGroups(grps) ==
    IF grps = <<>> THEN <<>>
    ELSE LET grp == Head(grps)
             gname == IF grp.header = Null THEN <<>>
                      ELSE clean_text(grp.header)
             gfields == KeptPairs(grp.items)
         IN  (IF gname # <<>> \/ gfields # <<>>
              THEN <<[group |-> IF gname = <<>> THEN Null ELSE gname,
                      fields |-> gfields]>>
              ELSE <<>>) \o KeptGroups(Tail(grps))

\* parse_portable_infobox, as far as the profile goes
parse_portable_infobox(nodes) ==
    [fields |-> KeptPairs(SelectData(nodes)),
     groups |-> KeptGroups(SelectGroups(nodes))]

\* A dict is the sequence of its <<key, value>> pairs in insertion order
DictHas(d, k) == \E i \in DOMAIN d : d[i][1] = k
DictGet(d, k) == d[CHOOSE i \in DOMAIN d : d[i][1] = k][2]
\* d[k] = v
DictSet(d, k, v) ==
    IF DictHas(d, k)
    THEN [i \in DOMAIN d |-> IF d[i][1] = k THEN <<k, v>> ELSE d[i]]
    ELSE Append(d, <<k, v>>)

\* for kv in infobox["fields"]: flat_profile[kv["label"]] = kv["value"]
RECURSIVE FlatOfFields(_, _)
FlatOfFields(d, fields) ==
    IF fields = <<>> THEN d
    ELSE FlatOfFields(
             IF Head(fields).label # <<>> /\ Head(fields).value # <<>>
             THEN DictSet(d, Head(fields).label, Head(fields).value)
             ELSE d,
             Tail(fields))

\* for kv in grp["fields"]: the same, if the label is not in flat_profile
RECURSIVE FlatOfGroupFields(_, _)
FlatOfGroupFields(d, fields) ==
    IF fields = <<>> THEN d
    ELSE FlatOfGroupFields(
             IF /\ Head(fields).label # <<>> /\ Head(fields).value # <<>>
                /\ ~DictHas(d, Head(fields).label)
             THEN DictSet(d, Head(fields).label, Head(fields).value)
             ELSE d,
             Tail(fields))

RECURSIVE FlatOfGroups(_, _)
FlatOfGroups(d, groups) ==
    IF groups = <<>> THEN d
    ELSE FlatOfGroups(FlatOfGroupFields(d, Head(groups).fields),
                      Tail(groups))

\* The flat profile main() builds of an infobox
flat_profile(infobox) ==
    FlatOfGroups(FlatOfFields(<<>>, infobox.fields), infobox.groups)

\* profile, profile_groups and profile_flat of the record main() builds
Normalize(nodes) ==
    LET infobox == parse_portable_infobox(nodes)
    IN  [profile |-> infobox.fields,
         profile_groups |-> infobox.groups,
         profile_flat |-> flat_profile(infobox)]

\* The data items of the model: valid pairs, two of one label, a blank
\* label, a value that is only a reference marker, and an absent label
InfoboxItems ==
    {DataItem(<<"A">>, <<"1">>), DataItem(<<"A">>, <<"2">>),
     DataItem(<<"B">>, <<"3", "[", "1", "]">>), DataItem(<<" ">>, <<"4">>),
     DataItem(<<"C">>, <<"[", "1", "]">>), DataItem(Null, <<"5">>)}

\* The group sections of the model
InfoboxGroups ==
    {GroupNode(<<"G">>, <<DataItem(<<"A">>, <<"6">>)>>),
     GroupNode(Null, <<DataItem(<<"D">>, <<"7">>),
                       DataItem(<<"D">>, <<"8">>)>>),
     GroupNode(<<"H">>, <<>>),
     GroupNode(Null, <<DataItem(<<"C">>, <<"[", "1", "]">>)>>),
     GroupNode(<<" ">>, <<DataItem(<<"B">>, <<"9">>)>>)}

Infoboxes == SeqsUpTo(InfoboxItems \cup InfoboxGroups, MaxNodes)

\* Every variable that is not of the function calls, at rest
PureIdle ==
    /\ InitServeIdle
    /\ CrawlIdle
    /\ thr = <<>>
    /\ nReads = 0
    /\ pass = [pc |-> "idle"]
    /\ tfiles = [kind |-> "none"]

PureFrame == UNCHANGED <<crawlVars, serveVars, concVars, transVars>>

InitInfobox ==
    /\ call \in {[fn |-> "normalize", arg |-> nodes] : nodes \in Infoboxes}
    /\ ret = [done |-> FALSE]
    /\ PureIdle

\* The normalizer runs on the infobox
CallNormalize ==
    /\ call.fn = "normalize"
    /\ ~ret.done
    /\ ret' = [done |-> TRUE, value |-> Normalize(call.arg)]
    /\ UNCHANGED call
    /\ PureFrame

NextInfobox == CallNormalize

SpecInfobox == InitInfobox /\ [][NextInfobox]_vars

(***************************************************************************)
(* Properties of the normalizer                                            *)
(***************************************************************************)
\* The fields of the groups, one after the other in group order
RECURSIVE GroupFields(_)
GroupFields(groups) ==
    IF groups = <<>> THEN <<>>
    ELSE Head(groups).fields \o GroupFields(Tail(groups))

\* The value of the first pair of the sequence that has the label
FirstValue(pairs, label) ==
    pairs[CHOOSE i \in DOMAIN pairs :
             /\ pairs[i].label = label
             /\ \A j \in 1..(i - 1) : pairs[j].label # label].value

\* C13: in every normalizer output, profile_flat holds exactly the labels of
\* the pairs of profile and profile_groups, and profile_flat[label] is the
\* value of the first pair with that label in the order: profile, then the
\* fields of the groups in group order; no later pair replaces it.
C13_FlatProfileFirstWins ==
    ret.done =>
        LET out == ret.value
            pairs == out.profile \o GroupFields(out.profile_groups)
        IN  /\ {out.profile_flat[i][1] : i \in DOMAIN out.profile_flat}
                  = {pairs[i].label : i \in DOMAIN pairs}
            /\ \A i \in DOMAIN out.profile_flat :
                  out.profile_flat[i][2]
                      = FirstValue(pairs, out.profile_flat[i][1])

\* The data items of the infobox that lie outside every group section
RECURSIVE OutsideGroups(_)
OutsideGroups(nodes) ==
    IF nodes = <<>> THEN <<>>
    ELSE (IF Head(nodes).kind = "data" THEN <<Head(nodes)>> ELSE <<>>)
         \o OutsideGroups(Tail(nodes))

\* C14: for an infobox with data pairs outside and inside group sections,
\* the output `fields` holds exactly the valid pairs outside every group
\* section, in document order.
C14_FieldsAreUngrouped ==
    (/\ ret.done
     /\ OutsideGroups(call.arg) # <<>>
     /\ SelectGroups(call.arg) # <<>>) =>
        ret.value.profile = KeptPairs(OutsideGroups(call.arg))


(***************************************************************************)
(* slugify applied to one title                                            *)
(***************************************************************************)
MaxTitleLen == 4

TitleChars == {"A", "b", " ", "-", "&", "_", "\"", "("}

MayorGoodway == <<"M", "a", "y", "o", "r", " ", "G", "o", "o", "d", "w", "a", "y">>
ChaseAndMarshall == <<"C", "h", "a", "s", "e", " ", "&", " ", "M", "a", "r", "s", "h", "a", "l", "l">>

\* The titles of the model: every text of TitleChars up to MaxTitleLen, and
\* some longer ones, two of them of 80 and of 81 letters
Titles ==
    SeqsUpTo(TitleChars, MaxTitleLen)
        \cup {MayorGoodway, ChaseAndMarshall, LongId(80), LongId(81),
              <<"A", "-", "(", "-", "b">>,
              <<"rsquo", "A", "ldquo", "b", "rdquo", "tab", "nl">>,
              <<" ", "-", "A", "&", "&", "-", " ">>}

InitSlug ==
    /\ call \in {[fn |-> "slugify", arg |-> t] : t \in Titles}
    /\ ret = [done |-> FALSE]
    /\ PureIdle

CallSlugify ==
    /\ call.fn = "slugify"
    /\ ~ret.done
    /\ ret' = [done |-> TRUE, value |-> slugify(call.arg)]
    /\ UNCHANGED call
    /\ PureFrame

NextSlug == CallSlugify

SpecSlug == InitSlug /\ [][NextSlug]_vars

\* C15: slugify applied to its own output gives that output again; and the
\* ids of "Mayor Goodway", of the empty title and of "Chase & Marshall" are
\* "mayor-goodway", the placeholder "item" and "chase-and-marshall".
C15_SlugifyIdempotent ==
    (call.fn = "slugify" /\ ret.done) =>
        /\ slugify(ret.value) = ret.value
        /\ call.arg = MayorGoodway => ret.value = <<"m", "a", "y", "o", "r", "-", "g", "o", "o", "d", "w", "a", "y">>
        /\ call.arg = <<>> => ret.value = <<"i", "t", "e", "m">>
        /\ call.arg = ChaseAndMarshall => ret.value = <<"c", "h", "a", "s", "e", "-", "a", "n", "d", "-", "m", "a", "r", "s", "h", "a", "l", "l">>

\* C15 witness: the id of a title that slugify changes in every step (case,
\* blanks at the ends, "&", hyphen runs) has been computed.
C15_Witness ==
    /\ call.fn = "slugify"
    /\ ret.done
    /\ call.arg = <<" ", "-", "A", "&", "&", "-", " ">>
    /\ ret.value = <<"a", "a", "n", "d", "a", "n", "d">>


(***************************************************************************)
(* Link discovery: extract_character_links_from_list_html.  The markup is  *)
(* the sequence of its anchors [text, href] in document order.  A URL is a *)
(* text; its scheme and host, if it has them, are one character, and so is *)
(* a percent escape ("%20", "%3A").                                        *)
(***************************************************************************)
MaxAnchors == 3

WIKI_BASE == "https://pawpatrol.fandom.com"
OtherBase == "https://other.example"
LIST_PAGE_TITLE ==
    <<"L", "i", "s", "t", "_", "o", "f", "_", "c", "h", "a", "r", "a", "c",
      "t", "e", "r", "s">>

WikiPrefix == <<"/", "w", "i", "k", "i", "/">>

StartsWith(s, p) == Len(s) >= Len(p) /\ SubSeq(s, 1, Len(p)) = p

\* href.startswith("http://") or href.startswith("https://")
IsAbsolute(href) == href # <<>> /\ Head(href) \in {WIKI_BASE, OtherBase}

\* The text before the first character of cs
RECURSIVE Before(_, _)
Before(s, cs) ==
    IF s = <<>> \/ Head(s) \in cs THEN <<>>
    ELSE <<Head(s)>> \o Before(Tail(s), cs)

\* urlsplit(href).path: what follows scheme and host, up to the query string
\* or the fragment
urlsplit_path(href) ==
    Before(IF IsAbsolute(href) THEN Tail(href) ELSE href, {"?", "#"})

\* WIKI_PATH_RE.match(path): group 1, or Null when the path does not match
WIKI_PATH_RE_match(path) ==
    IF /\ StartsWith(path, WikiPrefix)
       /\ Len(path) > Len(WikiPrefix)
       /\ \A i \in DOMAIN path : path[i] \notin {"?", "#"}
    THEN SubSeq(path, Len(WikiPrefix) + 1, Len(path))
    ELSE Null

\* urllib.parse.unquote
unquote(s) ==
    [i \in DOMAIN s |-> CASE s[i] = "%20" -> " "
                          [] s[i] = "%3A" -> ":"
                          [] OTHER -> s[i]]

\* str.split(c)
RECURSIVE Split(_, _)
Split(s, c) ==
    IF c \notin Range(s) THEN <<s>>
    ELSE <<Before(s, {c})>>
         \o Split(SubSeq(s, Len(Before(s, {c})) + 2, Len(s)), c)

\* c.join(segments)
RECURSIVE Join(_, _)
Join(segs, c) ==
    IF segs = <<>> THEN <<>>
    ELSE IF Len(segs) = 1 THEN Head(segs)
    ELSE Head(segs) \o <<c>> \o Join(Tail(segs), c)

\* urljoin: the loop that resolves the segments "." and ".."
RECURSIVE ResolveDots(_, _)
ResolveDots(done, rest) ==
    IF rest = <<>> THEN done
    ELSE IF Head(rest) = <<".", ".">>
         THEN ResolveDots(IF done = <<>> THEN <<>>
                          ELSE SubSeq(done, 1, Len(done) - 1), Tail(rest))
    ELSE IF Head(rest) = <<".">> THEN ResolveDots(done, Tail(rest))
    ELSE ResolveDots(Append(done, Head(rest)), Tail(rest))

\* urljoin(base, path) for a path that starts with "/"
urljoin(base, path) ==
    LET segments == Split(path, "/")
        resolved == ResolveDots(<<>>, segments)
                       \o (IF segments[Len(segments)] \in {<<".">>, <<".", ".">>}
                           THEN << <<>> >> ELSE <<>>)
        joined == Join(resolved, "/")
    IN  <<base>> \o (IF joined = <<>> \/ Head(joined) # "/"
                     THEN <<"/">> \o joined ELSE joined)

Anchor(text, href) == [text |-> text, href |-> href]

\* The tests of the loop body, for one anchor and the keys seen so far
AnchorSkipped(a, seen) ==
    \/ clean_text(a.text) = <<>>
    \/ IsAbsolute(a.href)
          /\ ~(Head(a.href) = WIKI_BASE /\ StartsWith(Tail(a.href), WikiPrefix))
    \/ WIKI_PATH_RE_match(urlsplit_path(a.href)) = Null
    \/ ":" \in Range(unquote(WIKI_PATH_RE_match(urlsplit_path(a.href))))
    \/ ReplaceChar(unquote(WIKI_PATH_RE_match(urlsplit_path(a.href))),
                   " ", <<"_">>) = LIST_PAGE_TITLE
    \/ Lower(urljoin(WIKI_BASE, urlsplit_path(a.href))) \in seen

RECURSIVE ExtractLoop(_, _, _)
ExtractLoop(anchors, found, seen) ==
    IF anchors = <<>> THEN found
    ELSE LET a == Head(anchors)
             abs_url == urljoin(WIKI_BASE, urlsplit_path(a.href))
         IN  IF AnchorSkipped(a, seen)
             THEN ExtractLoop(Tail(anchors), found, seen)
             ELSE ExtractLoop(Tail(anchors),
                              Append(found, <<clean_text(a.text), abs_url>>),
                              seen \cup {Lower(abs_url)})

extract_character_links_from_list_html(anchors) ==
    ExtractLoop(anchors, <<>>, {})

\* title_from_wiki_url, of a URL of WIKI_BASE
title_from_wiki_url(url) ==
    IF ~StartsWith(Tail(url), WikiPrefix) THEN Null
    ELSE IF Len(Tail(url)) = Len(WikiPrefix) THEN Null
    ELSE unquote(SubSeq(Tail(url), Len(WikiPrefix) + 1, Len(Tail(url))))

\* The anchors of the model
Anchors ==
    {
     Anchor(<<"C", "h", "a", "s", "e">>, <<"/", "w", "i", "k", "i", "/",
       "C", "h", "a", "s", "e">>),
     Anchor(<<"c", "h", "a", "s", "e">>, <<"/", "w", "i", "k", "i", "/",
       "c", "h", "a", "s", "e">>),
     Anchor(<<"E", "d", "i", "t">>, <<"/", "w", "i", "k", "i", "/", "C",
       "h", "a", "s", "e", "?", "a", "=", "e">>),
     Anchor(<<"T", "r", "i", "v", "i", "a">>, <<"/", "w", "i", "k", "i",
       "/", "Z", "u", "m", "a", "#", "T">>),
     Anchor(<<"L", "i", "s", "t">>, <<"/", "w", "i", "k", "i", "/", "L",
       "i", "s", "t", "_", "o", "f", "_", "c", "h", "a", "r", "a",
       "c", "t", "e", "r", "s">>),
     Anchor(<<"L", "i", " ", "s", "t">>, <<WIKI_BASE, "/", "w", "i", "k",
       "i", "/", "L", "i", "s", "t", "%20", "o", "f", "%20", "c", "h",
       "a", "r", "a", "c", "t", "e", "r", "s">>),
     Anchor(<<"C", "a", "t">>, <<"/", "w", "i", "k", "i", "/", "C", "a",
       "t", "e", "g", "o", "r", "y", ":", "P", "u", "p", "s">>),
     Anchor(<<"C", "a", "t">>, <<"/", "w", "i", "k", "i", "/", "C", "a",
       "t", "e", "g", "o", "r", "y", "%3A", "P", "u", "p", "s">>),
     Anchor(<<" ">>, <<"/", "w", "i", "k", "i", "/", "R", "u", "b", "b",
       "l", "e">>),
     Anchor(<<"E", "x", "t">>, <<OtherBase, "/", "w", "i", "k", "i", "/",
       "S", "k", "y">>),
     Anchor(<<"D", "o", "t", " ", "[", "1", "]">>, <<WIKI_BASE, "/", "w",
       "i", "k", "i", "/", ".", "/", "L", "i", "s", "t", "_", "o",
       "f", "_", "c", "h", "a", "r", "a", "c", "t", "e", "r", "s">>),
     Anchor(<<"H", "o", "m", "e">>, <<"/", "f", "/", "p">>) }

Markups == SeqsUpTo(Anchors, MaxAnchors)

InitLinks ==
    /\ call \in {[fn |-> "extract_links", arg |-> markup] :
                    markup \in Markups}
    /\ ret = [done |-> FALSE]
    /\ PureIdle

CallExtractLinks ==
    /\ call.fn = "extract_links"
    /\ ~ret.done
    /\ ret' = [done |-> TRUE,
               value |-> extract_character_links_from_list_html(call.arg)]
    /\ UNCHANGED call
    /\ PureFrame

NextLinks == CallExtractLinks

SpecLinks == InitLinks /\ [][NextLinks]_vars

(***************************************************************************)
(* Properties of link discovery                                            *)
(***************************************************************************)
\* The entry an anchor stands for, if its path is a /wiki/ path
EntryOf(a) ==
    <<clean_text(a.text), urljoin(WIKI_BASE, urlsplit_path(a.href))>>

\* The position of the first anchor of the markup that stands for the entry
FirstOccurrence(markup, e) ==
    CHOOSE k \in DOMAIN markup :
        /\ WIKI_PATH_RE_match(urlsplit_path(markup[k].href)) # Null
        /\ EntryOf(markup[k]) = e
        /\ \A j \in 1..(k - 1) :
              WIKI_PATH_RE_match(urlsplit_path(markup[j].href)) = Null
                 \/ EntryOf(markup[j]) # e

\* C16: the output of link discovery has no link whose title part contains
\* ":", no link to the listing page itself, no two entries whose URLs are
\* equal when lower-cased, and its entries are in the order of their first
\* occurrence in the markup.
C16_LinkOutputFiltered ==
    ret.done =>
        LET out == ret.value
        IN  /\ \A i \in DOMAIN out :
                  /\ title_from_wiki_url(out[i][2]) # Null
                  /\ ":" \notin Range(title_from_wiki_url(out[i][2]))
                  /\ ReplaceChar(title_from_wiki_url(out[i][2]), " ", <<"_">>)
                        # LIST_PAGE_TITLE
            /\ \A i, j \in DOMAIN out :
                  i # j => Lower(out[i][2]) # Lower(out[j][2])
            /\ \A i \in DOMAIN out :
                  \E k \in DOMAIN call.arg :
                      /\ WIKI_PATH_RE_match(urlsplit_path(call.arg[k].href))
                            # Null
                      /\ EntryOf(call.arg[k]) = out[i]
            /\ \A i, j \in DOMAIN out :
                  i < j => FirstOccurrence(call.arg, out[i])
                              < FirstOccurrence(call.arg, out[j])

\* The href carries a query string or a fragment
HasQueryOrFragment(href) == "?" \in Range(href) \/ "#" \in Range(href)

\* C17: a link whose href carries a query string or a fragment yields no
\* output entry: every entry of the output is the entry of an anchor of the
\* markup whose href carries neither.
C17_NoQueryNoFragment ==
    ret.done =>
        \A i \in DOMAIN ret.value :
            \E k \in DOMAIN call.arg :
                /\ ~HasQueryOrFragment(call.arg[k].href)
                /\ WIKI_PATH_RE_match(urlsplit_path(call.arg[k].href)) # Null
                /\ EntryOf(call.arg[k]) = ret.value[i]


(***************************************************************************)
(* The translation pass: translate_data.main.  A dict is the sequence of   *)
(* its <<key, value>> pairs.  The character "x4000" stands for a run of    *)
(* 4000 letters "x", "ctl" for a control character such as U+0001.  The    *)
(* profile_flat of every record of the model is a dict.                    *)
(***************************************************************************)
MaxTrRecords == 2
MaxRuns == 2

BATCH_MAX_CHARS == 8000
BATCH_MAX_ITEMS == 50
MAX_RETRIES == 5

IN_JSON_PATH == "characters.json"
OUT_JSON_PATH_is_input == "characters.json"
OUT_JSON_PATH == "characters_de.json"
CACHE_PATH == "characters_de.json.translate_cache_de.json"

LABEL_DE ==
    <<
       << <<"S", "p", "e", "c", "i", "e", "s">>, <<"S", "p", "e", "z", "i",
          "e", "s">> >>,
       << <<"G", "e", "n", "d", "e", "r">>, <<"G", "e", "s", "c", "h", "l",
          "e", "c", "h", "t">> >>,
       << <<"R", "e", "l", "a", "t", "i", "v", "e", "s">>, <<"B", "e", "z",
          "i", "e", "h", "u", "n", "g", "e", "n">> >>,
       << <<"A", "g", "e">>, <<"A", "l", "t", "e", "r">> >>,
       << <<"N", "i", "c", "k", "n", "a", "m", "e", "s">>, <<"S", "p", "i",
          "t", "z", "n", "a", "m", "e", "n">> >>,
       << <<"O", "c", "c", "u", "p", "a", "t", "i", "o", "n">>, <<"R", "o",
          "l", "l", "e", " ", "/", " ", "B", "e", "r", "u", "f">> >>,
       << <<"F", "i", "r", "s", "t", " ", "a", "p", "p", "e", "a", "r",
          "a", "n", "c", "e">>, <<"E", "r", "s", "t", "e", "r", " ", "A",
          "u", "f", "t", "r", "i", "t", "t">> >>,
       << <<"L", "i", "k", "e", "s">>, <<"M", "a", "g">> >>,
       << <<"D", "i", "s", "l", "i", "k", "e", "s">>, <<"M", "a", "g", " ",
          "n", "i", "c", "h", "t">> >>,
       << <<"V", "o", "i", "c", "e", " ", "(", "U", "S", "/", "C", "a",
          "n", "a", "d", "a", ")", ":">>, <<"S", "t", "i", "m", "m", "e",
          " ", "(", "U", "S", "/", "K", "a", "n", "a", "d", "a", ")">> >>,
       << <<"V", "o", "i", "c", "e", " ", "(", "U", "K", ")", ":">>, <<"S",
          "t", "i", "m", "m", "e", " ", "(", "U", "K", ")">> >> >>

\* translate_data.clean_text
translate_clean_text(s) ==
    IF s = Null THEN <<>>
    ELSE Strip(SubRuns([i \in DOMAIN s |-> IF s[i] = "ctl" THEN " " ELSE s[i]],
                       Whitespace, <<" ">>))

\* len(t)
RECURSIVE TextLen(_)
TextLen(t) ==
    IF t = <<>> THEN 0
    ELSE (IF Head(t) = "x4000" THEN 4000 ELSE 1) + TextLen(Tail(t))

map_label(label) ==
    LET k == translate_clean_text(label)
    IN  IF DictHas(LABEL_DE, k) THEN DictGet(LABEL_DE, k) ELSE k

is_nonempty_str(x) == x # Null /\ Strip(x) # <<>>

\* load_cache: the dict of the cache file, empty when there is none
load_cache_empty(file) == <<>>
load_cache(file) == IF file.exists THEN file.content ELSE <<>>

\* What the remote service answers for one text
RemoteTranslation(t) ==
    IF t = <<"e">> THEN <<" ">> ELSE <<" ", "D">> \o t \o <<"nl">>

\* collect_texts_for_translation
OneText(x) == IF is_nonempty_str(x) THEN <<x>> ELSE <<>>

RECURSIVE DictValueTexts(_)
DictValueTexts(pf) ==
    IF pf = <<>> THEN <<>>
    ELSE OneText(Head(pf)[2]) \o DictValueTexts(Tail(pf))

RECURSIVE ItemTexts(_)
ItemTexts(items) ==
    IF items = <<>> THEN <<>>
    ELSE OneText(Head(items).label) \o OneText(Head(items).value)
         \o ItemTexts(Tail(items))

RECURSIVE GroupTexts(_)
GroupTexts(pgs) ==
    IF pgs = <<>> THEN <<>>
    ELSE OneText(Head(pgs).group) \o ItemTexts(Head(pgs).fields)
         \o GroupTexts(Tail(pgs))

RecordTexts(ch) ==
    IF ~ch.isdict THEN <<>>
    ELSE OneText(ch.summary)
         \o DictValueTexts(ch.profile_flat)
         \o ItemTexts(ch.profile)
         \o GroupTexts(ch.profile_groups)

RECURSIVE CollectLoop(_)
CollectLoop(chars) ==
    IF chars = <<>> THEN <<>>
    ELSE RecordTexts(Head(chars)) \o CollectLoop(Tail(chars))

collect_texts_for_translation(ds) == CollectLoop(ds.characters)

\* translate_many: the cleaned, non-empty texts, each once, in order
RECURSIVE UniqLoop(_, _)
UniqLoop(texts, uniq) ==
    IF texts = <<>> THEN uniq
    ELSE LET t == translate_clean_text(Head(texts))
         IN  UniqLoop(Tail(texts),
                      IF t = <<>> \/ t \in Range(uniq) THEN uniq
                      ELSE Append(uniq, t))

Uniq(texts) == UniqLoop(texts, <<>>)

\* The mutant sends every text, cached or not
Todo_all(uniq, tcache) == uniq

\* todo = [t for t in uniq if t not in self.cache]
Todo(uniq, tcache) == SelectSeq(uniq, LAMBDA t : ~DictHas(tcache, t))

\* translate_many: the inner loop that fills one batch from todo[i] on; i is
\* the position of the next text (from 1)
RECURSIVE FillBatch(_, _, _, _)
FillBatch(todo, i, batch, total_chars) ==
    IF i <= Len(todo) /\ Len(batch) < BATCH_MAX_ITEMS
    THEN IF batch # <<>> /\ total_chars + TextLen(todo[i]) > BATCH_MAX_CHARS
         THEN [batch |-> batch, i |-> i]
         ELSE FillBatch(todo, i + 1, Append(batch, todo[i]),
                        total_chars + TextLen(todo[i]))
    ELSE [batch |-> batch, i |-> i]

NextBatch(todo, i) ==
    LET filled == FillBatch(todo, i, <<>>, 0)
    IN  IF filled.batch = <<>> /\ i <= Len(todo)
        THEN [batch |-> <<todo[i]>>, i |-> i + 1]
        ELSE filled

\* for src, dst in zip(batch, translated): self.cache[src] = clean_text(dst)
RECURSIVE CacheBatch(_, _)
CacheBatch(tcache, batch) ==
    IF batch = <<>> THEN tcache
    ELSE CacheBatch(DictSet(tcache, Head(batch),
                            translate_clean_text(
                                RemoteTranslation(Head(batch)))),
                    Tail(batch))

\* return {t: self.cache[t] for t in uniq if t in self.cache}
LookupOf(uniq, tcache) ==
    LET hit == SelectSeq(uniq, LAMBDA t : DictHas(tcache, t))
    IN  [k \in DOMAIN hit |-> <<hit[k], DictGet(tcache, hit[k])>>]


\* translate_one, for a text that is clean and not empty: the cached
\* translation, else what one more remote call gives
translate_one(t, tcache) ==
    IF t = <<>> THEN <<>>
    ELSE IF DictHas(tcache, t) THEN DictGet(tcache, t)
    ELSE translate_clean_text(RemoteTranslation(t))

\* tr(val) of transform_dataset
tr(val, lookup, tcache) ==
    LET s == translate_clean_text(val)
    IN  IF s = <<>> THEN val
        ELSE IF DictHas(lookup, s) /\ DictGet(lookup, s) # <<>>
        THEN DictGet(lookup, s)
        ELSE translate_one(s, tcache)

\* it["value"] = tr(it["value"]) under is_nonempty_str
TrValue(v, lookup, tcache) ==
    IF is_nonempty_str(v) THEN tr(v, lookup, tcache) ELSE v

\* it["label"] = tr(mapped) if mapped == clean_text(it["label"]) else mapped
TrLabel(label, lookup, tcache) ==
    IF ~is_nonempty_str(label) THEN label
    ELSE IF map_label(label) = translate_clean_text(label)
    THEN tr(map_label(label), lookup, tcache)
    ELSE map_label(label)

TrItem(label, value) == [label |-> label, value |-> value]

TrItems(items, lookup, tcache) ==
    [k \in DOMAIN items |->
        TrItem(TrLabel(items[k].label, lookup, tcache),
               TrValue(items[k].value, lookup, tcache))]

TrGroups(pgs, lookup, tcache) ==
    [k \in DOMAIN pgs |->
        [group |-> TrValue(pgs[k].group, lookup, tcache),
         fields |-> TrItems(pgs[k].fields, lookup, tcache)]]

\* new_pf[map_label(k)] = tr(v) if is_nonempty_str(v) else v
RECURSIVE TrFlat(_, _, _, _)
TrFlat(pf, new_pf, lookup, tcache) ==
    IF pf = <<>> THEN new_pf
    ELSE TrFlat(Tail(pf),
                DictSet(new_pf, map_label(Head(pf)[1]),
                        TrValue(Head(pf)[2], lookup, tcache)),
                lookup, tcache)

TrCharacter(ch, lookup, tcache) ==
    IF ~ch.isdict THEN ch
    ELSE [ch EXCEPT
            !.summary = TrValue(ch.summary, lookup, tcache),
            !.profile_flat = TrFlat(ch.profile_flat, <<>>, lookup, tcache),
            !.profile = TrItems(ch.profile, lookup, tcache),
            !.profile_groups = TrGroups(ch.profile_groups, lookup, tcache)]

\* transform_dataset, once translate_many has returned the lookup
transform_dataset(src, lookup, tcache) ==
    [meta |-> [transforms |-> src.meta.transforms + 1],
     characters |-> [k \in DOMAIN src.characters |->
                        TrCharacter(src.characters[k], lookup, tcache)]]

\* The texts tr() hands to translate_one that are not in the cache: each
\* costs one more remote call
FallbackTexts(uniq, lookup, tcache) ==
    {uniq[k] : k \in {j \in DOMAIN uniq :
                         /\ ~(DictHas(lookup, uniq[j])
                                 /\ DictGet(lookup, uniq[j]) # <<>>)
                         /\ ~DictHas(tcache, uniq[j])}}

\* A record of the input dataset
TrChar(id, title, summary, profile_flat, profile, profile_groups) ==
    [isdict |-> TRUE, id |-> id,
     source |-> [page_title |-> title, attribution |-> title \o <<" ">> \o id],
     summary |-> summary, profile_flat |-> profile_flat,
     profile |-> profile, profile_groups |-> profile_groups]

\* The records of the model: labels LABEL_DE maps and labels it does not,
\* texts that occur twice, a text the service translates to nothing, three
\* texts that do not fit one batch, one text of 8001 characters, two records
\* of one id, an entry that is no object
TrRecords ==
    { TrChar(<<"a">>, <<"s", "1">>, <<"s", "1">>,
             << <<<<"S", "p", "e", "c", "i", "e", "s">>, <<"p", "u", "p">>>> >>,
             <<TrItem(<<"S", "p", "e", "c", "i", "e", "s">>,
                      <<"p", "u", "p">>)>>,
             <<>>),
      TrChar(<<"b">>, <<"G">>, Null,
             << <<<<"F", "o", "o">>, <<"2">>>>,
                <<<<" ", "A", "g", "e">>, <<"e">>>> >>,
             <<TrItem(<<"F", "o", "o">>, <<"2">>)>>,
             <<[group |-> <<"G">>,
                fields |-> <<TrItem(<<" ", "A", "g", "e">>, <<"e">>)>>]>>),
      TrChar(<<"c">>, <<"c">>, <<"x4000">>,
             <<>>,
             <<TrItem(<<"A", "g", "e">>, <<"x4000", "a">>),
               TrItem(<<"L", "i", "k", "e", "s">>, <<"x4000", "b">>),
               TrItem(<<"A", "g", "e">>, <<"x4000", "x4000", "c">>)>>,
             <<>>),
      TrChar(<<"a">>, <<"F", "o", "o">>, <<"ctl">>,
             <<>>,
             <<TrItem(<<"F", "o", "o">>, <<"s", "1">>),
               TrItem(<<"V", "o", "i", "c", "e", " ", "(", "U", "K", ")", ":">>,
                      <<" ">>)>>,
             <<[group |-> Null, fields |-> <<>>]>>),
      [TrChar(<<"d">>, <<"s", "1">>, <<"s", "1">>, <<>>, <<>>, <<>>)
         EXCEPT !.isdict = FALSE] }

TrDatasets ==
    {[meta |-> [transforms |-> 0], characters |-> cs] :
        cs \in SeqsUpTo(TrRecords, MaxTrRecords)}

NoTrFile == [exists |-> FALSE, content |-> <<>>]

\* The cache file before the first run: none, or one an earlier pass over
\* other data left
TrCacheFiles ==
    {NoTrFile,
     [exists |-> TRUE,
      content |-> << << <<"s", "1">>, <<"D", "s", "1">> >>,
                     << <<"z">>, <<"D", "z">> >> >>]}

TrPaths == {IN_JSON_PATH, OUT_JSON_PATH, CACHE_PATH}

NoTrDataset == [meta |-> [transforms |-> 0], characters |-> <<>>]

\* A process at the start of main(); warm: an earlier run has completed;
\* sent: the batch of every request that was answered, in order (a
\* failed attempt is repeated with the same batch); anyfail: an attempt of
\* this run has failed
StartOfRun(run, warm) ==
    [pc |-> "start", run |-> run, warm |-> warm, exhausted |-> FALSE,
     src |-> NoTrDataset, uniq |-> <<>>, todo |-> <<>>, i |-> 1,
     attempt |-> 1, tcache |-> <<>>, calls |-> 0, sent |-> <<>>,
     anyfail |-> FALSE]

InitTranslate ==
    /\ \E ds \in TrDatasets, c \in TrCacheFiles :
          tfiles = [p \in TrPaths |->
                       IF p = IN_JSON_PATH
                       THEN [exists |-> TRUE, content |-> ds]
                       ELSE IF p = CACHE_PATH THEN c ELSE NoTrFile]
    /\ pass = StartOfRun(1, FALSE)
    /\ InitServeIdle
    /\ CrawlIdle
    /\ thr = <<>>
    /\ nReads = 0
    /\ call = [fn |-> "none"]
    /\ ret = [done |-> FALSE]

TransFrame == UNCHANGED <<crawlVars, serveVars, concVars, pureVars>>

\* main() up to the first remote call: load_json, load_cache, the deep copy,
\* collect_texts_for_translation and the head of translate_many
LoadInput ==
    /\ pass.pc = "start"
    /\ LET src == tfiles[IN_JSON_PATH].content
           tcache == load_cache(tfiles[CACHE_PATH])
           uniq == Uniq(collect_texts_for_translation(src))
           todo == Todo(uniq, tcache)
       IN  pass' = [pass EXCEPT
                      !.pc = IF todo = <<>> THEN "transform" ELSE "request",
                      !.src = src, !.tcache = tcache,
                      !.uniq = uniq, !.todo = todo]
    /\ UNCHANGED tfiles
    /\ TransFrame

\* _translate_request: an attempt succeeds; the batch is cached and the loop
\* of translate_many goes on
RequestSucceeds ==
    /\ pass.pc = "request"
    /\ LET nb == NextBatch(pass.todo, pass.i)
       IN  pass' = [pass EXCEPT
                      !.calls = @ + 1,
                      !.sent = Append(@, nb.batch),
                      !.tcache = CacheBatch(@, nb.batch),
                      !.i = nb.i,
                      !.attempt = 1,
                      !.pc = IF nb.i > Len(pass.todo) THEN "transform"
                             ELSE "request"]
    /\ UNCHANGED tfiles
    /\ TransFrame

\* _translate_request: an attempt fails; after MAX_RETRIES attempts the
\* RuntimeError leaves translate_many, transform_dataset and main()
RequestFails ==
    /\ pass.pc = "request"
    /\ LET tried == [pass EXCEPT !.calls = @ + 1, !.anyfail = TRUE]
       IN  pass' = IF pass.attempt < MAX_RETRIES
                   THEN [tried EXCEPT !.attempt = @ + 1]
                   ELSE [tried EXCEPT !.pc = "failed", !.exhausted = TRUE]
    /\ UNCHANGED tfiles
    /\ TransFrame

\* The rest of main(): translate_many returns the lookup, the records are
\* transformed, save_json writes the output and save_cache the cache
TransformAndSave ==
    /\ pass.pc = "transform"
    /\ LET lookup == LookupOf(pass.uniq, pass.tcache)
           fallback == FallbackTexts(pass.uniq, lookup, pass.tcache)
           tcache == CacheBatch(pass.tcache,
                                SelectSeq(pass.uniq,
                                          LAMBDA t : t \in fallback))
           out == transform_dataset(pass.src, lookup, tcache)
           single == [k \in DOMAIN pass.uniq |-> <<pass.uniq[k]>>]
       IN  /\ tfiles' =
                 [tfiles EXCEPT
                    ![OUT_JSON_PATH] = [exists |-> TRUE, content |-> out],
                    ![CACHE_PATH] = [exists |-> TRUE, content |-> tcache]]
           /\ pass' = [pass EXCEPT !.pc = "done", !.tcache = tcache,
                                   !.calls = @ + Cardinality(fallback),
                                   !.sent = @ \o SelectSeq(single,
                                              LAMBDA b : b[1] \in fallback)]
    /\ TransFrame

\* The pass is started again on the same files
Rerun ==
    /\ pass.pc \in {"done", "failed"}
    /\ pass.run < MaxRuns
    /\ pass' = StartOfRun(pass.run + 1, pass.warm \/ pass.pc = "done")
    /\ UNCHANGED tfiles
    /\ TransFrame

NextTranslate ==
    \/ LoadInput
    \/ RequestSucceeds
    \/ RequestFails
    \/ TransformAndSave
    \/ Rerun

SpecTranslate == InitTranslate /\ [][NextTranslate]_vars

\* A translation service that answers in the end: weak fairness of
\* RequestSucceeds, WF_vars(RequestSucceeds), with the condition that enables
\* the action (the pass is at a request) written out
SpecTranslateLive ==
    /\ InitTranslate
    /\ [][NextTranslate]_vars
    /\ ([]<>(pass.pc # "request") \/ []<><<RequestSucceeds>>_vars)

(***************************************************************************)
(* Properties of the translation pass                                      *)
(***************************************************************************)
\* C18: when the remote call of a batch has failed on every one of its
\* attempts, the pass does not fail: it goes on and writes its output.
C18_ExhaustedBatchDoesNotFailPass ==
    pass.exhausted =>
        /\ pass.pc # "failed"
        /\ pass.pc = "done" => tfiles[OUT_JSON_PATH].exists

\* C19: a run that starts after a run on the same input has completed, so
\* with the cache file that run wrote, makes no remote call.
C19_WarmRerunMakesNoCall == pass.warm => pass.calls = 0

\* C19 witness: such a run has completed; it looked texts up and the earlier
\* run had to ask the service for them.
C19_Witness ==
    /\ pass.warm
    /\ pass.pc = "done"
    /\ Len(pass.uniq) >= 3
    /\ ~DictHas(pass.tcache, <<"z">>)

\* C20: the pass never changes its input file nor the object it loaded of
\* it; and the output of a completed run has as many records as the input,
\* each at its position with the id and the source block of the input.
C20_InputAndProvenanceKept ==
    /\ [][tfiles'[IN_JSON_PATH] = tfiles[IN_JSON_PATH]]_vars
    /\ [](pass.pc \in {"request", "transform", "done", "failed"} =>
             pass.src = tfiles[IN_JSON_PATH].content)
    /\ [](pass.pc = "done" =>
             LET inp == tfiles[IN_JSON_PATH].content.characters
                 out == tfiles[OUT_JSON_PATH].content.characters
             IN  /\ Len(out) = Len(inp)
                 /\ \A k \in DOMAIN inp :
                       /\ out[k].isdict = inp[k].isdict
                       /\ out[k].id = inp[k].id
                       /\ out[k].source = inp[k].source)

\* C20 witness: a run over two records has completed and its output differs
\* from the input.
C20_Witness ==
    /\ pass.pc = "done"
    /\ Len(tfiles[IN_JSON_PATH].content.characters) = 2
    /\ \E k \in 1..2 :
          tfiles[OUT_JSON_PATH].content.characters[k]
              # tfiles[IN_JSON_PATH].content.characters[k]

(***************************************************************************)
(* The crawl client: FandomClient.api_get and FandomClient.download        *)
(*                                                                         *)
(* Both methods run the same loop, for attempt in 1..max_retries.  Times   *)
(* are counted in tenths of a second, so that --sleep 0.7 is 7, the 0.2 of *)
(* the backoff is 2 and its ceiling of 8.0 is 80.  The pacing delay        *)
(* sleep_s is a delay, zero or more.  call holds the running method with   *)
(* the attempt about to be made, the outcome of every attempt made (log)   *)
(* and the waits slept so far; ret is what the method gave its caller.     *)
(***************************************************************************)
max_retries == 4

ThrottleStatuses == {429, 503, 502}

\* What makes an attempt end in the except branch: the transport fails,
\* raise_for_status() raises, or the body cannot be read (r.json(), r.content)
AttemptErrors ==
    {[status |-> 0, err |-> "timeout"],
     [status |-> 404, err |-> "http_error"],
     [status |-> 500, err |-> "http_error"],
     [status |-> 200, err |-> "bad_body"]}

\* An attempt whose response was good and whose body was read
GoodAttempt == [status |-> 200, err |-> "None"]

ClientMethods == {"api_get", "download"}

SleepValues == {0, 7, 8, 50, 100}

\* The mutant waits without the ceiling
Backoff_uncapped(sleep_s, attempt) == sleep_s * (2 ^ (attempt - 1)) + 2

\* wait = min(8.0, self.sleep_s * (2 ** (attempt - 1)) + 0.2)
Backoff(sleep_s, attempt) ==
    LET grown == sleep_s * (2 ^ (attempt - 1)) + 2
    IN  IF grown < 80 THEN grown ELSE 80

InitClient ==
    /\ call \in {[fn |-> m, sleep_s |-> s, attempt |-> 1, log |-> <<>>,
                  waits |-> <<>>, last_err |-> "None", paced |-> 0] :
                    m \in ClientMethods, s \in SleepValues}
    /\ ret = [done |-> FALSE]
    /\ PureIdle

InLoop ==
    /\ call.fn \in ClientMethods
    /\ ~ret.done
    /\ call.attempt <= max_retries

\* if r.status_code in (429, 503, 502): sleep the backoff, continue
AttemptThrottled ==
    /\ InLoop
    /\ \E status \in ThrottleStatuses :
          call' = [call EXCEPT !.log = Append(@, [status |-> status, err |-> "None"]),
                               !.waits = Append(@, Backoff(call.sleep_s, call.attempt)),
                               !.attempt = @ + 1]
    /\ UNCHANGED ret
    /\ PureFrame

\* except Exception as e: last_err = e, sleep the backoff, next attempt
AttemptRaises ==
    /\ InLoop
    /\ \E e \in AttemptErrors :
          call' = [call EXCEPT !.log = Append(@, e),
                               !.waits = Append(@, Backoff(call.sleep_s, call.attempt)),
                               !.last_err = e.err,
                               !.attempt = @ + 1]
    /\ UNCHANGED ret
    /\ PureFrame

\* A good response: its data is read, self._sleep() paces, the data is returned
AttemptReturns ==
    /\ InLoop
    /\ call' = [call EXCEPT !.log = Append(@, GoodAttempt),
                            !.paced = IF call.sleep_s > 0 THEN call.sleep_s ELSE 0]
    /\ ret' = [done |-> TRUE, kind |-> "return", status |-> 200, attempt |-> call.attempt]
    /\ PureFrame

\* The loop ran out: raise RuntimeError(... last_err ...)
RaiseAfterRetries ==
    /\ call.fn \in ClientMethods
    /\ ~ret.done
    /\ call.attempt > max_retries
    /\ ret' = [done |-> TRUE, kind |-> "raise", exc |-> "RuntimeError",
               last_err |-> call.last_err]
    /\ UNCHANGED call
    /\ PureFrame

NextClient ==
    \/ AttemptThrottled
    \/ AttemptRaises
    \/ AttemptReturns
    \/ RaiseAfterRetries

SpecClient == InitClient /\ [][NextClient]_vars

(***************************************************************************)
(* Properties of the crawl client                                          *)
(***************************************************************************)
\* C21: a remote call of the crawl client makes at most max_retries (4)
\* attempts; it returns only from an attempt that got a good response (not
\* 429/502/503, no error); it raises only when all of exactly max_retries
\* attempts were throttled or failed; the wait after failed attempt n is
\* min(8.0, sleep * 2^(n-1) + 0.2), so the waits never decrease and never
\* exceed 8 seconds.
C21_BoundedRetriesWithBackoff ==
    call.fn \in ClientMethods =>
      /\ Len(call.log) <= 4
      /\ Len(call.waits) <= Len(call.log)
      /\ \A n \in DOMAIN call.waits :
            /\ call.log[n] # GoodAttempt
            /\ call.waits[n] =
                 (IF call.sleep_s * (2 ^ (n - 1)) + 2 <= 80
                  THEN call.sleep_s * (2 ^ (n - 1)) + 2 ELSE 80)
            /\ call.waits[n] <= 80
            /\ n > 1 => call.waits[n - 1] <= call.waits[n]
      /\ (ret.done /\ ret.kind = "return") =>
            /\ call.log[Len(call.log)] = GoodAttempt
            /\ \A n \in 1..(Len(call.log) - 1) : call.log[n] # GoodAttempt
      /\ (ret.done /\ ret.kind = "raise") =>
            /\ Len(call.log) = 4
            /\ Len(call.waits) = 4
            /\ \A n \in DOMAIN call.log :
                  \/ call.log[n].status \in {429, 502, 503}
                  \/ call.log[n].err # "None"
      /\ (~ret.done /\ Len(call.log) = 4) => ENABLED RaiseAfterRetries

\* A call with the ceiling in force gave up after four failed attempts of
\* both kinds
C21_Witness ==
    /\ call.fn \in ClientMethods
    /\ ret.done
    /\ ret.kind = "raise"
    /\ call.sleep_s = 50
    /\ call.waits = <<52, 80, 80, 80>>
    /\ \E n \in DOMAIN call.log : call.log[n].status = 429
    /\ \E n \in DOMAIN call.log : call.log[n].err = "timeout"

(***************************************************************************)
(* Properties of the labels in the translated dataset                      *)
(***************************************************************************)
\* The records of the finished pass, input and output side by side
DonePairs ==
    IF pass.pc = "done"
    THEN {<<pass.src.characters[k], tfiles[OUT_JSON_PATH].content.characters[k]>> :
             k \in {j \in DOMAIN pass.src.characters :
                       pass.src.characters[j].isdict}}
    ELSE {}

\* The texts of all requests of the pass
SentTexts == UNION {Range(pass.sent[k]) : k \in DOMAIN pass.sent}

\* What the claim asks of one label: its mapped name if the mapping has it,
\* else the clean label itself, never sent to the service
LabelAsClaimed(before, after) ==
    LET k == translate_clean_text(before)
    IN  IF DictHas(LABEL_DE, k) THEN after = DictGet(LABEL_DE, k)
        ELSE after = k /\ k \notin SentTexts

ItemsAsClaimed(before, after) ==
    \A k \in DOMAIN before :
        is_nonempty_str(before[k].label) =>
            LabelAsClaimed(before[k].label, after[k].label)

\* C22: in the translated dataset every label that is a key of the label
\* mapping is replaced by its mapped name, and every other label passes
\* through unchanged but for whitespace cleaning and is not sent to remote
\* translation; for profile_flat keys, profile labels and grouped field
\* labels alike.
C22_LabelsMappedOrPassedThrough ==
    \A pair \in DonePairs :
        /\ \A k \in DOMAIN pair[1].profile_flat :
              \E j \in DOMAIN pair[2].profile_flat :
                  LabelAsClaimed(pair[1].profile_flat[k][1],
                                 pair[2].profile_flat[j][1])
        /\ ItemsAsClaimed(pair[1].profile, pair[2].profile)
        /\ \A g \in DOMAIN pair[1].profile_groups :
              ItemsAsClaimed(pair[1].profile_groups[g].fields,
                             pair[2].profile_groups[g].fields)

(***************************************************************************)
(* Properties of the batching of translate_many                            *)
(***************************************************************************)
\* The texts of a sequence of batches, one after the other
RECURSIVE Flatten(_)
Flatten(batches) ==
    IF batches = <<>> THEN <<>>
    ELSE Head(batches) \o Flatten(Tail(batches))

\* The clean texts of the input in first-seen order: the text at position k
\* counts if it is not empty and no earlier position holds the same text
FirstSeen(texts) ==
    LET clean == [k \in DOMAIN texts |-> translate_clean_text(texts[k])]
        first == {k \in DOMAIN clean :
                     /\ clean[k] # <<>>
                     /\ \A j \in 1..(k - 1) : clean[j] # clean[k]}
        Pick[k \in 0..Len(clean)] ==
            IF k = 0 THEN <<>>
            ELSE IF k \in first THEN Append(Pick[k - 1], clean[k])
            ELSE Pick[k - 1]
    IN  Pick[Len(clean)]

\* The batching of a pass without a failed request is over; the cache file
\* is still the one the pass started with
BatchingDone == pass.pc = "transform" /\ ~pass.anyfail

\* C23: in a pass with no remote failure every distinct non-empty cleaned
\* string that is not in the cache is in exactly one batch request, no cached
\* string and no duplicate is sent, the batches keep the first-seen order,
\* and the batching loop terminates.
C23_EachNewTextSentOnce ==
    /\ [](BatchingDone =>
            LET cached == load_cache(tfiles[CACHE_PATH])
                wanted == SelectSeq(
                              FirstSeen(collect_texts_for_translation(pass.src)),
                              LAMBDA t : ~DictHas(cached, t))
                flat == Flatten(pass.sent)
            IN  /\ flat = wanted
                /\ \A t \in Range(wanted) :
                      /\ Cardinality({k \in DOMAIN pass.sent :
                                         t \in Range(pass.sent[k])}) = 1
                      /\ Cardinality({k \in DOMAIN flat : flat[k] = t}) = 1
                /\ \A k \in DOMAIN flat : ~DictHas(cached, flat[k]))
    /\ (pass.pc = "request") ~> (pass.pc # "request")

\* A pass without failure sent two batches, left out a cached text and met
\* a text twice
C23_Witness ==
    /\ BatchingDone
    /\ Len(pass.sent) >= 2
    /\ \E t \in Range(pass.uniq) : DictHas(load_cache(tfiles[CACHE_PATH]), t)
    /\ Len(pass.uniq) < Len(collect_texts_for_translation(pass.src))

(***************************************************************************)
(* Properties of the size of a batch                                       *)
(***************************************************************************)
\* The characters of a batch
RECURSIVE BatchChars(_)
BatchChars(batch) ==
    IF batch = <<>> THEN 0
    ELSE TextLen(Head(batch)) + BatchChars(Tail(batch))

\* The batches of the pass: the answered ones and the one of the request
\* that is being made
BatchesOfPass ==
    Range(pass.sent) \cup
        (IF pass.pc = "request"
         THEN {NextBatch(pass.todo, pass.i).batch} ELSE {})

\* C24: every batch sent to the remote translator holds at least 1 and at
\* most BATCH_MAX_ITEMS (50) strings and at most BATCH_MAX_CHARS (8000)
\* characters in total, also when one string alone is longer than 8000
\* characters.
C24_BatchWithinLimits ==
    \A batch \in BatchesOfPass :
        /\ Len(batch) >= 1
        /\ Len(batch) <= 50
        /\ BatchChars(batch) <= 8000

(***************************************************************************)
(* clean_text of the crawler on its own                                     *)
(***************************************************************************)
MaxTextLen == 7

\* The input strings: all over a word character, the space and the two
\* brackets, and some with the other whitespace and with letters
Texts ==
    SeqsUpTo({"1", " ", "[", "]"}, MaxTextLen)
        \cup {<<"a", " ", "[", "1", "]", " ", "b">>,
              <<"a", "tab", "nl", "b", "[", "A", "z", "9", "]">>,
              <<"nl", "a", "[", "]", "b", "tab">>,
              <<"[", "a", " ", "b", "]">>}

InitClean ==
    /\ call \in {[fn |-> "clean_text", arg |-> s] : s \in Texts}
    /\ ret = [done |-> FALSE]
    /\ PureIdle

\* clean_text runs on the string
CallCleanText ==
    /\ call.fn = "clean_text"
    /\ ~ret.done
    /\ ret' = [done |-> TRUE, value |-> clean_text(call.arg)]
    /\ UNCHANGED call
    /\ PureFrame

NextClean == CallCleanText

SpecClean == InitClean /\ [][NextClean]_vars

(***************************************************************************)
(* Properties of clean_text                                                *)
(***************************************************************************)
\* s holds a bracketed alphanumeric marker such as [1]
HasMarker(s) ==
    \E i, j \in DOMAIN s :
        /\ i + 1 < j
        /\ s[i] = "["
        /\ s[j] = "]"
        /\ \A k \in (i + 1)..(j - 1) : s[k] \in AlnumChars

\* C25: for every input string clean_text returns a string with no leading or
\* trailing whitespace, no run of two or more whitespace characters and no
\* bracketed alphanumeric marker, also for a marker between two words and for
\* nested markers; so cleaning twice gives what cleaning once gives.
C25_CleanTextNormalForm ==
    (call.fn = "clean_text" /\ ret.done) =>
        LET v == ret.value
        IN  /\ v # <<>> => (v[1] \notin Whitespace /\ v[Len(v)] \notin Whitespace)
            /\ \A k \in 1..(Len(v) - 1) :
                  ~(v[k] \in Whitespace /\ v[k + 1] \in Whitespace)
            /\ ~HasMarker(v)
            /\ clean_text(v) = v

(***************************************************************************)
(* The lead summary: extract_lead_summary                                  *)
(*                                                                         *)
(* A page is the list of its p elements in document order, each with the   *)
(* text get_text(" ", strip=True) gives and with whether it stands inside  *)
(* div.mw-parser-output; has_root says whether the page has that div.      *)
(* max_chars is the value of --lead-max, any integer.                      *)
(***************************************************************************)
MaxParagraphs == 2

\* A text of n word characters
Fill(n) == [k \in 1..n |-> "x"]

\* s[:n] of Python
SliceTo(s, n) ==
    IF n >= 0 THEN SubSeq(s, 1, IF n < Len(s) THEN n ELSE Len(s))
    ELSE SubSeq(s, 1, IF Len(s) + n > 0 THEN Len(s) + n ELSE 0)

\* txt.lower().startswith(("stub", "this article", "this page"))
IsBoilerplate(txt) ==
    \/ StartsWith(Lower(txt), <<"s", "t", "u", "b">>)
    \/ StartsWith(Lower(txt), <<"t", "h", "i", "s", " ", "a", "r", "t", "i", "c", "l", "e">>)
    \/ StartsWith(Lower(txt), <<"t", "h", "i", "s", " ", "p", "a", "g", "e">>)

\* The body of the loop for one paragraph text: Null stands for continue
LeadOf(raw, max_chars) ==
    LET txt == clean_text(raw)
    IN  IF txt = <<>> THEN Null
        ELSE IF IsBoilerplate(txt) THEN Null
        ELSE IF Len(txt) < 40 THEN Null
        ELSE IF Len(txt) > max_chars
        THEN RStripSet(SliceTo(txt, max_chars - 1), Whitespace) \o <<"ellipsis">>
        ELSE txt

\* root.select("p"): the paragraphs under the root
ParagraphsOf(page) ==
    IF page.has_root THEN SelectSeq(page.ps, LAMBDA p : p.inside) ELSE page.ps

extract_lead_summary(page, max_chars) ==
    LET ps == ParagraphsOf(page)
        hit == {k \in DOMAIN ps : LeadOf(ps[k].text, max_chars) # Null}
    IN  IF hit = {} THEN Null
        ELSE LeadOf(ps[CHOOSE k \in hit : \A j \in hit : k <= j].text, max_chars)

\* The paragraphs of the model: an empty one, one that is only a marker, a
\* short one, boilerplate, texts of 40 and of 44 characters (the second with
\* a space where a budget of 40 cuts), a long text outside the root
Paragraphs ==
    {[inside |-> TRUE, text |-> <<" ">>],
     [inside |-> TRUE, text |-> <<"[", "1", "]">>],
     [inside |-> TRUE, text |-> Fill(39)],
     [inside |-> TRUE, text |-> <<"S", "t", "u", "b", " ">> \o Fill(40)],
     [inside |-> TRUE, text |-> Fill(40)],
     [inside |-> TRUE, text |-> <<"a">> \o Fill(37) \o <<" ">> \o Fill(5)],
     [inside |-> FALSE, text |-> <<"b">> \o Fill(41)]}

Pages ==
    {[has_root |-> r, ps |-> ps] :
        r \in BOOLEAN, ps \in SeqsUpTo(Paragraphs, MaxParagraphs)}

\* Values of --lead-max (type=int)
LeadMaxValues == {-5, 0, 1, 39, 40, 41, 44, 420}

InitLead ==
    /\ call \in {[fn |-> "extract_lead_summary", page |-> p, max_chars |-> m] :
                    p \in Pages, m \in LeadMaxValues}
    /\ ret = [done |-> FALSE]
    /\ PureIdle

\* summary = extract_lead_summary(page_html, max_chars=args.lead_max)
CallLeadSummary ==
    /\ call.fn = "extract_lead_summary"
    /\ ~ret.done
    /\ ret' = [done |-> TRUE,
               value |-> extract_lead_summary(call.page, call.max_chars)]
    /\ UNCHANGED call
    /\ PureFrame

NextLead == CallLeadSummary

SpecLead == InitLead /\ [][NextLead]_vars

(***************************************************************************)
(* Properties of the lead summary                                          *)
(***************************************************************************)
\* The clean texts of the paragraphs under the root that pass the filters
Surviving(page) ==
    LET ps == ParagraphsOf(page)
        txt == [k \in DOMAIN ps |-> clean_text(ps[k].text)]
    IN  SelectSeq(txt, LAMBDA t : /\ t # <<>>
                                  /\ Len(t) >= 40
                                  /\ ~IsBoilerplate(t))

\* The summary comes from the paragraph, whole or cut, and is within budget
SummaryWithin(v, para, budget) ==
    /\ v # Null
    /\ Len(v) <= budget
    /\ (v[Len(v)] = "ellipsis") <=> (Len(para) > budget)
    /\ \/ v = para
       \/ /\ v[Len(v)] = "ellipsis"
          /\ StartsWith(para, SubSeq(v, 1, Len(v) - 1))

\* C26: for every page and every budget --lead-max accepts (0, negative
\* values and values below 40 too) the lead summary is absent or derived from
\* the first paragraph that is non-empty, at least 40 characters long and no
\* boilerplate; its length never exceeds the budget, and it ends with an
\* ellipsis exactly when the paragraph was longer than the budget.
C26_LeadWithinBudget ==
    (call.fn = "extract_lead_summary" /\ ret.done) =>
        LET live == Surviving(call.page)
        IN  IF live = <<>> THEN ret.value = Null
            ELSE SummaryWithin(ret.value, live[1], call.max_chars)

(***************************************************************************)
(* Properties of the ids the crawler stores                                *)
(***************************************************************************)
\* C27: every id the crawler stores, slugify of a normalized title, matches
\* the id pattern ^[a-z0-9-]{1,80}$ of the serving layer, so load_dataset
\* drops no crawled record because of its id; also for a title whose slug is
\* longer than 80 characters.
C27_SlugMatchesIdPattern ==
    (call.fn = "slugify" /\ ret.done) => ID_RE_match(ret.value)

(***************************************************************************)
(* Properties of the listing against the lookup by id                      *)
(***************************************************************************)
\* C28: for every dataset file that loads, every entry of the /api/characters
\* listing can be fetched by its id: GET /api/characters/<entry.id> answers
\* 200 with the same name, image_url, profile_flat and source fields as the
\* entry, and the count of the listing is the number of ids the lookup by id
\* resolves; also when the file holds two records of one id.
C28_ListingMatchesLookup ==
    (req.route = "api_characters" /\ resp.status = 200) =>
        /\ \A k \in DOMAIN resp.characters :
              LET entry == resp.characters[k]
                  byid == api_character(entry.id, cache.value)
              IN  /\ byid.status = 200
                  /\ byid.character.name = entry.name
                  /\ byid.character.image_url = entry.image_url
                  /\ byid.character.profile_flat = entry.profile_flat
                  /\ byid.character.source_page_url = entry.source_page_url
                  /\ byid.character.source_attribution = entry.source_attribution
        /\ resp.count = Cardinality(DOMAIN cache.value.by_id)

(***************************************************************************)
(* Properties of the image files of a crawl                                *)
(***************************************************************************)
\* C29: at the end of a crawl run, for every record of the dataset with an
\* image.local_path, the file at that path has the content whose SHA-256 the
\* record stores: no later link of the run overwrites the image file of an
\* earlier record.
C29_ImageFileMatchesDigest ==
    (pc = "done" /\ exit_code = 0) =>
        \A k \in DOMAIN dataset.characters :
            LET image == dataset.characters[k].image
            IN  image.local_path # Null =>
                    /\ image.local_path \in DOMAIN imageFiles
                    /\ sha256_hex(imageFiles[image.local_path]) = image.sha256

(***************************************************************************)
(* Properties of the labels of one record across its three places          *)
(***************************************************************************)
\* The labels of the profile and profile_groups fields of a record
LabelsOfFields(ch) ==
    {ch.profile[k].label : k \in DOMAIN ch.profile}
        \cup UNION {{ch.profile_groups[g].fields[k].label :
                        k \in DOMAIN ch.profile_groups[g].fields} :
                    g \in DOMAIN ch.profile_groups}

\* The keys of profile_flat
FlatKeys(ch) == {ch.profile_flat[k][1] : k \in DOMAIN ch.profile_flat}

\* C30: the pass turns one source label into the same output label at every
\* call site: for a record whose profile_flat keys are exactly the labels
\* of its profile and profile_groups fields before the pass, the keys of the
\* translated profile_flat are exactly the labels of the translated fields,
\* and profile_flat keeps its number of entries.
C30_LabelsAgreeAcrossCallSites ==
    \A pair \in DonePairs :
        FlatKeys(pair[1]) = LabelsOfFields(pair[1]) =>
            /\ FlatKeys(pair[2]) = LabelsOfFields(pair[2])
            /\ Len(pair[2].profile_flat) = Len(pair[1].profile_flat)

=============================================================================
